---------------------------- MODULE Spec2Model ----------------------------
(***************************************************************************)
(* SymptoGuide: the Flask service's model initialisation (backend/app.py), *)
(* the natural-language symptom extractor (backend/model/Interract.py) and *)
(* the assessment pipeline of HealthcareAssistant                          *)
(* (backend/model/Healthcare_Assistant_System.py).                         *)
(***************************************************************************)
EXTENDS Integers, Sequences, FiniteSets, TLC

VARIABLES
    \* ---- backend/app.py: module globals and request threads
    ML_MODEL_AVAILABLE, \* app.py:32/38, fixed at import
    artifact,           \* healthcare_model.pkl on disk: "ok", "missing", "corrupt"
    assistant,          \* global assistant: 0 is None, else the id of an object
    symptom_extractor,  \* global symptom_extractor: 0 is None, else object id
    initialized,        \* global _initialized
    init_error,         \* global _init_error
    obj_state,          \* per HealthcareAssistant object: none/fresh/loading/loaded
    pc,                 \* per thread: position in initialize_assistant/handler
    self_obj,           \* per thread: the object its load_model call runs on
    request,            \* per thread: the request being served
    resp,               \* per thread: the response being returned
    load_count,         \* history: executions of app.py:86-87
    load_failed,        \* history: some load_model call raised
    \* ---- backend/model/Interract.py: one SymptomExtractor and one call
    known_symptoms,     \* self.known_symptoms, in the order the set enumerates
    input_text,         \* the text handed to extract_symptoms
    typed,              \* number of pieces the text was put together from
    ex_pc,              \* "off", "typing" or "done"
    ex,                 \* what extract_symptoms returned
    model_data,         \* the artifact the assistant has loaded
    symptom_list,       \* the list handed to get_comprehensive_assessment
    pieces,             \* number of pieces the list was put together from
    as_pc,              \* "off", "asking" or "done"
    assessment,         \* what get_comprehensive_assessment returned
    \* ---- Healthcare_Assistant_System.py: _normalize_symptom on its own
    ns_input,           \* the string handed to _normalize_symptom
    ns_result,          \* what the calls made so far returned, in order
    ns_pc,              \* "off" or "calling"
    \* ---- training: Healthcare_Assistant_System.py, Feature_Engineering.py
    \* ---- and the engineers of app/services/ml fitted on the data file
    df_main,            \* rows of diseases_symptoms_cleaned.csv
    training,           \* what prepare_training_data set on the assistant
    fe_engineer,        \* feature_engine.AdvancedFeatureEngineer, or NoEngineer
    fr_engineer,        \* feature_engineer.AdvancedFeatureEngineer, or NoEngineer
    transformed,        \* the call of transform on a fitted engineer, its outcome
    tr_pc,              \* "off" or "loaded"
    \* ---- app/services/ml: the model directory, the global ModelManager and
    \* ---- the requests of /analyze; HealthcareAssistant.load_model on a pickle
    model_dir,          \* ml_artifacts/models/v1: what each of its files holds
    manager,            \* the global ModelManager and what load_model returned
    enable_cache,       \* settings.ENABLE_CACHE
    cache,              \* InMemoryCache._cache: cache key to cached result
    served,             \* number of /analyze requests answered
    response,           \* status of the last response
    columns_seen,       \* history: the columns of every frame _prepare_features built
    pickle_file,        \* healthcare_model.pkl: its state and the keys it holds
    loaded_assistant,   \* the fields load_model assigned, and how it ended
    sv_pc,              \* "off", "start" or "serving"
    \* ---- fuzzy matching on its own: _find_best_symptom_match of the assistant
    \* ---- and _fuzzy_match of the extractor over one vocabulary set
    vocabulary,         \* all_symptoms / known_symptoms, in the order the set enumerates
    mt_input,           \* the symptom handed to the two functions
    mt_result,          \* what each of them returned, "uncalled" before
    mt_pc,              \* "off" or "matching"
    \* ---- the user's severity scores in the two places that scale a feature
    \* ---- by them: PredictionService._prepare_features and transform of
    \* ---- feature_engineer.py
    sev_request,        \* the symptoms and the severity dict of the request
    sev_features,       \* what each of the two computed, and which were called
    sev_pc,             \* "off" or "scaling"
    \* ---- augment_training_data of Feature_Engineering.py
    aug_input,          \* its arguments, and hash(disease) % 2**32 of this process
    aug,                \* the disease, loop and index it is at, X_augmented, y_augmented
    \* ---- InMemoryCache of app/core/cache.py under a clock
    mc_store,           \* self._cache: key -> the value and its expiry
    mc_now,             \* what datetime.now() reads, in seconds
    mc_written,         \* key -> the last set of the key and whether a delete or clear followed
    mc_got              \* the last get: key, time, result, and mc_written[key] at the call

flask_vars == <<ML_MODEL_AVAILABLE, artifact, assistant, symptom_extractor,
                initialized, init_error, obj_state, pc, self_obj, request,
                resp, load_count, load_failed>>

extract_vars == <<known_symptoms, input_text, typed, ex_pc, ex>>

assess_vars == <<model_data, symptom_list, pieces, as_pc, assessment>>

normalize_vars == <<ns_input, ns_result, ns_pc>>

train_vars == <<df_main, training, fe_engineer, fr_engineer, transformed,
                tr_pc>>

service_vars == <<model_dir, manager, enable_cache, cache, served, response,
                  columns_seen, pickle_file, loaded_assistant, sv_pc>>

match_vars == <<vocabulary, mt_input, mt_result, mt_pc>>

severity_vars == <<sev_request, sev_features, sev_pc>>

augment_vars == <<aug_input, aug>>

memcache_vars == <<mc_store, mc_now, mc_written, mc_got>>

vars == <<flask_vars, extract_vars, assess_vars, normalize_vars, train_vars,
          service_vars, match_vars, severity_vars, augment_vars,
          memcache_vars>>

\* What the steps of the service, of the extractor and of the assistant
\* leave alone.
outside_flask == <<extract_vars, assess_vars, normalize_vars, train_vars,
                   service_vars, match_vars, severity_vars, augment_vars,
                   memcache_vars>>
outside_extract == <<flask_vars, assess_vars, normalize_vars, train_vars,
                     service_vars, match_vars, severity_vars, augment_vars,
                     memcache_vars>>
outside_assess == <<flask_vars, extract_vars, normalize_vars, train_vars,
                    service_vars, match_vars, severity_vars, augment_vars,
                    memcache_vars>>
outside_normalize == <<flask_vars, extract_vars, assess_vars, train_vars,
                       service_vars, match_vars, severity_vars, augment_vars,
                       memcache_vars>>
outside_train == <<flask_vars, extract_vars, assess_vars, normalize_vars,
                   service_vars, match_vars, severity_vars, augment_vars,
                   memcache_vars>>
outside_service == <<flask_vars, extract_vars, assess_vars, normalize_vars,
                     train_vars, match_vars, severity_vars, augment_vars,
                     memcache_vars>>
outside_match == <<flask_vars, extract_vars, assess_vars, normalize_vars,
                   train_vars, service_vars, severity_vars, augment_vars,
                   memcache_vars>>
outside_severity == <<flask_vars, extract_vars, assess_vars, normalize_vars,
                      train_vars, service_vars, match_vars, augment_vars,
                      memcache_vars>>
outside_augment == <<flask_vars, extract_vars, assess_vars, normalize_vars,
                     train_vars, service_vars, match_vars, severity_vars,
                     memcache_vars>>
outside_memcache == <<flask_vars, extract_vars, assess_vars, normalize_vars,
                      train_vars, service_vars, match_vars, severity_vars,
                      augment_vars>>

-----------------------------------------------------------------------------
(***************************************************************************)
(* Python string operations used by the extractor and the assistant        *)
(***************************************************************************)

\* Python's None, as returned by _fuzzy_match and _normalize_symptom.
None == "<None>"

Char(s, i) == SubSeq(s, i, i)

Range(f) == {f[i] : i \in DOMAIN f}

\* p in t, for strings
Contains(p, t) ==
    \E i \in 0..(Len(t) - Len(p)) : SubSeq(t, i + 1, i + Len(p)) = p

\* c in chars, for a one-character string c
CharIn(c, chars) == \E i \in 1..Len(chars) : Char(chars, i) = c

UpperCase == "ABCDEFGHIJKLMNOPQRSTUVWXYZ"
LowerCase == "abcdefghijklmnopqrstuvwxyz"
Digits == "0123456789"

\* string.punctuation, less the backquote (no TLA+ string holds one and no
\* text of the model contains one)
punctuation == "!\"#$%&'()*+,-./:;<=>?@[\\]^_{|}~"

IsSpace(c) == c \in {" ", "\t", "\n"}

LowerChar(c) ==
    IF CharIn(c, UpperCase)
    THEN Char(LowerCase, CHOOSE i \in 1..26 : Char(UpperCase, i) = c)
    ELSE c

\* F(v), with v evaluated once
At(F(_), v) == CHOOSE r \in {F(x) : x \in {v}} : TRUE

\* F(lo) \o ... \o F(hi) for strings, by halving
RECURSIVE ConcatStr(_, _, _)
ConcatStr(F(_), lo, hi) ==
    IF lo > hi THEN ""
    ELSE IF lo = hi THEN F(lo)
    ELSE At(LAMBDA mid : ConcatStr(F, lo, mid) \o ConcatStr(F, mid + 1, hi),
            (lo + hi) \div 2)

\* F(lo) \o ... \o F(hi) for sequences, by halving
RECURSIVE ConcatSeq(_, _, _)
ConcatSeq(F(_), lo, hi) ==
    IF lo > hi THEN <<>>
    ELSE IF lo = hi THEN F(lo)
    ELSE At(LAMBDA mid : ConcatSeq(F, lo, mid) \o ConcatSeq(F, mid + 1, hi),
            (lo + hi) \div 2)

\* The elements of a set of numbers in increasing order.
Sorted(S) ==
    At(LAMBDA T : [k \in 1..Cardinality(T) |->
                     CHOOSE x \in T : Cardinality({y \in T : y < x}) = k - 1],
       S)

\* The string of F(c) for the characters c of str
MapChars(F(_), str) ==
    At(LAMBDA s : ConcatStr(LAMBDA i : F(Char(s, i)), 1, Len(s)), str)

\* str.lower()
Lower(s) == MapChars(LowerChar, s)

\* str.replace(a, b) for one-character a
Replace(s, a, b) == MapChars(LAMBDA c : IF c = a THEN b ELSE c, s)

\* str.strip(chars)
StripChars(str, chars) ==
    At(LAMBDA s :
         At(LAMBDA keep :
              IF keep = {} THEN ""
              ELSE SubSeq(s, CHOOSE i \in keep : \A j \in keep : i <= j,
                             CHOOSE i \in keep : \A j \in keep : i >= j),
            {i \in 1..Len(s) : ~CharIn(Char(s, i), chars)}),
       str)

\* str.strip()
Strip(s) == StripChars(s, " \t\n")

\* str.split(sep) for a one-character sep: the pieces between separators,
\* empty ones kept
Split(str, sep) ==
    At(LAMBDA s :
         At(LAMBDA at :
              [k \in 1..(Len(at) + 1) |->
                  SubSeq(s, IF k = 1 THEN 1 ELSE at[k - 1] + 1,
                            IF k = Len(at) + 1 THEN Len(s) ELSE at[k] - 1)],
            Sorted({i \in 1..Len(s) : Char(s, i) = sep})),
       str)

\* str.split(): the maximal runs of non-whitespace
Words(str) ==
    At(LAMBDA s :
         At(LAMBDA starts :
              At(LAMBDA ends :
                   [k \in 1..Len(starts) |-> SubSeq(s, starts[k], ends[k])],
                 Sorted({i \in 1..Len(s) :
                           /\ ~IsSpace(Char(s, i))
                           /\ (i = Len(s) \/ IsSpace(Char(s, i + 1)))})),
            Sorted({i \in 1..Len(s) :
                      /\ ~IsSpace(Char(s, i))
                      /\ (i = 1 \/ IsSpace(Char(s, i - 1)))})),
       str)

\* sep.join(words)
Join(words, sep) ==
    At(LAMBDA w : ConcatStr(LAMBDA i : IF i = Len(w) THEN w[i] ELSE w[i] \o sep,
                            1, Len(w)),
       words)

\* re.sub(r'\s+', ' ', text)
CollapseSpaces(str) ==
    At(LAMBDA s :
         ConcatStr(LAMBDA i : IF ~IsSpace(Char(s, i)) THEN Char(s, i)
                              ELSE IF i > 1 /\ IsSpace(Char(s, i - 1)) THEN ""
                              ELSE " ",
                   1, Len(s)),
       str)

\* \w of the re module, on the characters of the model's texts
IsWordChar(c) ==
    CharIn(c, LowerCase) \/ CharIn(c, UpperCase) \/ CharIn(c, Digits) \/ c = "_"

\* re.sub(r'[^\w\s\'\-,.]', ' ', text)
ReplaceSpecial(s) ==
    MapChars(LAMBDA c : IF IsWordChar(c) \/ IsSpace(c) \/ CharIn(c, "'-,.")
                        THEN c ELSE " ",
             s)

-----------------------------------------------------------------------------
(***************************************************************************)
(* backend/app.py: requests served by the threads of one process.  The     *)
(* module is imported by the server, so the first requests find            *)
(* _initialized False and run initialize_assistant from the before_request *)
(* hook.  Steps are the statements that read or write a module global.     *)
(***************************************************************************)

\* Number of request threads of the server process.
NThreads == 2

Threads == 1..NThreads

\* The JSON body of a request that has none, and the body {} of /api/assess:
\* data.get gives [] and "" (app.py:306-308).
NoBody == [symptoms |-> <<>>, severity |-> "", duration |-> ""]

\* The result of a handler that makes no triage.
NoTriage == [concern_level |-> "none", recommended_departments |-> <<>>]

\* app.py:313-320
red_flag_symptoms ==
    {"chest pain", "difficulty breathing", "shortness of breath",
     "loss of consciousness", "severe bleeding", "sudden weakness"}

\* assess as it would be without lines 357-358
assess_without_emergency(data) ==
    [concern_level |-> "high",
     recommended_departments |-> <<"Primary Care">>]

\* app.py:304-375: the triage of a request body
assess(data) ==
    LET symptoms == data.symptoms
        severity == data.severity
        duration == data.duration
        lower_symptoms == {Lower(symptoms[i]) : i \in 1..Len(symptoms)}
        concern ==
            IF lower_symptoms \cap red_flag_symptoms # {} THEN "high"
            ELSE IF severity = "severe" THEN "high"
            ELSE IF \/ severity = "moderate"
                    \/ duration \in {"week", "weeks", "month", "chronic"}
                 THEN "moderate"
            ELSE IF Len(symptoms) >= 3 THEN "moderate"
            ELSE "low"
        dept ==
            IF lower_symptoms \cap {"stomach pain", "abdominal pain",
                                    "nausea", "vomiting", "diarrhea",
                                    "bloating"} # {}
            THEN "Gastroenterology"
            ELSE IF lower_symptoms \cap {"chest pain", "palpitations",
                                         "heart"} # {}
            THEN "Cardiology"
            ELSE IF lower_symptoms \cap {"shortness of breath",
                                         "breathlessness", "cough",
                                         "wheezing"} # {}
            THEN "Pulmonology"
            ELSE IF lower_symptoms \cap {"headache", "migraine", "dizziness",
                                         "numbness", "seizure"} # {}
            THEN "Neurology"
            ELSE IF lower_symptoms \cap {"rash", "itching", "skin",
                                         "hives"} # {}
            THEN "Dermatology"
            ELSE "Primary Care"
        listed == (IF concern = "high" THEN <<"Emergency">> ELSE <<>>)
                    \o (IF dept # "Primary Care" THEN <<dept>> ELSE <<>>)
    IN  [concern_level |-> concern,
         recommended_departments |->
             IF listed # <<>> THEN listed
             ELSE IF concern = "moderate" THEN <<"General Medicine">>
             ELSE <<"Primary Care">>]

\* Routes, with the request body where the handler reads one:
\* GET /api/health, GET /api/symptoms, POST /api/assess,
\* POST /api/extract-symptoms, POST /api/analyze without and with symptoms.
Requests ==
    { [endpoint |-> "health",   payload |-> "none",     body |-> NoBody],
      [endpoint |-> "symptoms", payload |-> "none",     body |-> NoBody],
      [endpoint |-> "assess",   payload |-> "none",     body |-> NoBody],
      [endpoint |-> "extract",  payload |-> "text",     body |-> NoBody],
      [endpoint |-> "analyze",  payload |-> "no_data",  body |-> NoBody],
      [endpoint |-> "analyze",  payload |-> "symptoms", body |-> NoBody] }

NoRequest == [endpoint |-> "none", payload |-> "none", body |-> NoBody,
              after_fail |-> FALSE]
NoResp == [status |-> 0, model_loaded |-> FALSE, passed |-> "none",
           during_init |-> FALSE, triage |-> NoTriage]

\* Some thread is inside initialize_assistant, past the gate.
InitRunning ==
    \E t \in Threads :
        pc[t] \in {"init_construct", "init_load_open", "init_load_assign",
                   "init_extractor"}

NoExtraction == [symptoms |-> {}, matched_phrases |-> <<>>, path |-> "none",
                 fallback |-> FALSE, user_input |-> ""]

NoAssessment ==
    [predicted_disease |-> "none", confidence |-> <<0, 1>>,
     top_3_predictions |-> <<>>, severity_score |-> 0,
     is_emergency |-> FALSE, resolved |-> {}, reranked |-> <<>>,
     matched_symptoms |-> <<>>, predictions |-> <<>>, precautions |-> <<>>]

\* The assistant, not in use.
AssessOff ==
    /\ model_data = [all_symptoms |-> <<>>, classes |-> <<>>,
                     disease_symptom_map |-> <<>>, symptom_weights |-> <<>>,
                     precautions_map |-> <<>>]
    /\ symptom_list = <<>>
    /\ pieces = 0
    /\ as_pc = "off"
    /\ assessment = NoAssessment

\* _normalize_symptom, not being called.
NormalizeOff ==
    /\ ns_input = ""
    /\ ns_result = <<>>
    /\ ns_pc = "off"

\* A dict with no key.
NoMap == [k \in {} |-> {}]

\* A feature engineer not constructed.
NoEngineer == [class |-> "none"]

\* HealthcareAssistant.__init__, Healthcare_Assistant_System.py:28-41, with
\* the co-occurrence table of self.feature_engineer and the two counts its
\* IDF is computed from
Untrained ==
    [prepared |-> FALSE, all_symptoms |-> {}, all_symptoms_list |-> <<>>,
     symptom_disease_map |-> NoMap, disease_symptom_map |-> NoMap,
     symptom_cooccurrence |-> NoMap, total_diseases |-> 0,
     symptom_doc_freq |-> NoMap]

\* transform not called.
NotTransformed ==
    [called |-> FALSE, class |-> "none", input |-> <<>>, raised |-> FALSE,
     columns |-> <<>>]

\* Training, not in use.
TrainOff ==
    /\ df_main = <<>>
    /\ training = Untrained
    /\ fe_engineer = NoEngineer
    /\ fr_engineer = NoEngineer
    /\ transformed = NotTransformed
    /\ tr_pc = "off"

\* model_manager.py:15-20: a ModelManager before load_model
NewManager ==
    [active_model |-> "none", feature_engineer |-> NoEngineer,
     model_metadata |-> NoMap, returned |-> "not called"]

\* Healthcare_Assistant_System.py:623: an assistant load_model was not
\* called on
NotLoaded == [returned |-> "not called", fields |-> NoMap]

\* The prediction service and the loaders, not in use.
ServiceOff ==
    /\ model_dir = [model |-> "missing", feature_engineer |-> "missing",
                    metadata |-> "missing"]
    /\ manager = NewManager
    /\ enable_cache = FALSE
    /\ cache = NoMap
    /\ served = 0
    /\ response = 0
    /\ columns_seen = {}
    /\ pickle_file = [state |-> "missing", keys |-> {}]
    /\ loaded_assistant = NotLoaded
    /\ sv_pc = "off"

\* The two matching functions, not called yet.
Uncalled == [find_best |-> "uncalled", fuzzy |-> "uncalled"]

\* Fuzzy matching, not in use.
MatchOff ==
    /\ vocabulary = <<>>
    /\ mt_input = ""
    /\ mt_result = Uncalled
    /\ mt_pc = "off"

\* No feature computed yet.
Unscaled ==
    [called |-> {}, prepared |-> [columns |-> <<>>, row |-> <<>>],
     multipliers |-> NoMap]

\* The severity scaling, not in use.
SeverityOff ==
    /\ sev_request = [symptoms |-> <<>>, severity |-> NoMap]
    /\ sev_features = Unscaled
    /\ sev_pc = "off"

\* augment_training_data not called.
NotAugmenting ==
    [step |-> "off", i |-> 0, idx |-> 0, X_augmented |-> <<>>,
     y_augmented |-> <<>>, seeds |-> <<>>]

\* The augmentation, not in use.
AugmentOff ==
    /\ aug_input = [disease_symptom_map |-> <<>>, all_symptoms_list |-> <<>>,
                    augmentation_factor |-> 0, residue |-> NoMap]
    /\ aug = NotAugmenting

\* No set of the key so far.
NeverSet == [value |-> "none", at |-> 0, ttl |-> 0, live |-> FALSE]

\* No get so far.
NoGet ==
    [key |-> "none", at |-> 0, result |-> None, written |-> NeverSet,
     present_after |-> FALSE]

\* The in-memory cache, not in use.
MemCacheOff ==
    /\ mc_store = NoMap
    /\ mc_now = 0
    /\ mc_written = NoMap
    /\ mc_got = NoGet

\* The extractor, not in use.
ExtractOff ==
    /\ known_symptoms = <<>>
    /\ input_text = ""
    /\ typed = 0
    /\ ex_pc = "off"
    /\ ex = NoExtraction

FlaskInit ==
    /\ ML_MODEL_AVAILABLE \in BOOLEAN
    /\ artifact \in {"ok", "missing", "corrupt"}
    /\ assistant = 0
    /\ symptom_extractor = 0
    /\ initialized = FALSE
    /\ init_error = "none"
    /\ obj_state = [o \in Threads |-> "none"]
    /\ pc = [t \in Threads |-> "idle"]
    /\ self_obj = [t \in Threads |-> 0]
    /\ request = [t \in Threads |-> NoRequest]
    /\ resp = [t \in Threads |-> NoResp]
    /\ load_count = 0
    /\ load_failed = FALSE
    /\ ExtractOff
    /\ AssessOff
    /\ NormalizeOff
    /\ TrainOff
    /\ ServiceOff
    /\ MatchOff
    /\ SeverityOff
    /\ AugmentOff
    /\ MemCacheOff

\* The service, not in use.
FlaskOff ==
    /\ ML_MODEL_AVAILABLE = FALSE
    /\ artifact = "missing"
    /\ assistant = 0
    /\ symptom_extractor = 0
    /\ initialized = FALSE
    /\ init_error = "none"
    /\ obj_state = [o \in Threads |-> "none"]
    /\ pc = [t \in Threads |-> "off"]
    /\ self_obj = [t \in Threads |-> 0]
    /\ request = [t \in Threads |-> NoRequest]
    /\ resp = [t \in Threads |-> NoResp]
    /\ load_count = 0
    /\ load_failed = FALSE

\* app.py:107-111: a request reaches an idle thread and the before_request
\* hook tests the flag
ensure_model_loaded(t, r) ==
    /\ pc[t] = "idle"
    /\ request' = [request EXCEPT ![t] =
                     [endpoint |-> r.endpoint, payload |-> r.payload,
                      body |-> r.body, after_fail |-> load_failed]]
    /\ pc' = [pc EXCEPT ![t] = IF ~initialized THEN "init_enter"
                                ELSE "handler"]
    /\ UNCHANGED <<ML_MODEL_AVAILABLE, artifact, assistant,
                   symptom_extractor, initialized, init_error, obj_state,
                   self_obj, resp, load_count, load_failed>>
    /\ UNCHANGED outside_flask

\* app.py:77-78: the gate's test
initialize_assistant_gate(t) ==
    /\ pc[t] = "init_enter"
    /\ pc' = [pc EXCEPT ![t] = IF initialized THEN "handler"
                                ELSE "init_set"]
    /\ UNCHANGED <<ML_MODEL_AVAILABLE, artifact, assistant,
                   symptom_extractor, initialized, init_error, obj_state,
                   self_obj, request, resp, load_count, load_failed>>
    /\ UNCHANGED outside_flask

\* app.py:79-83: the flag is set before anything is loaded
initialize_assistant_set(t) ==
    /\ pc[t] = "init_set"
    /\ initialized' = TRUE
    /\ IF ~ML_MODEL_AVAILABLE
       THEN /\ init_error' = "imports"
            /\ pc' = [pc EXCEPT ![t] = "handler"]
       ELSE /\ init_error' = init_error
            /\ pc' = [pc EXCEPT ![t] = "init_construct"]
    /\ UNCHANGED <<ML_MODEL_AVAILABLE, artifact, assistant,
                   symptom_extractor, obj_state, self_obj, request, resp, load_count, load_failed>>
    /\ UNCHANGED outside_flask

\* app.py:86: assistant = HealthcareAssistant(); thread t's object is t
initialize_assistant_construct(t) ==
    /\ pc[t] = "init_construct"
    /\ obj_state' = [obj_state EXCEPT ![t] = "fresh"]
    /\ assistant' = t
    /\ load_count' = load_count + 1
    /\ pc' = [pc EXCEPT ![t] = "init_load_open"]
    /\ UNCHANGED <<ML_MODEL_AVAILABLE, artifact, symptom_extractor,
                   initialized, init_error, self_obj, request, resp,
                   load_failed>>
    /\ UNCHANGED outside_flask

\* app.py:87 calling Healthcare_Assistant_System.py:628-629 on the object
\* the global names now; app.py:95-104 when it raises
initialize_assistant_load_open(t) ==
    /\ pc[t] = "init_load_open"
    /\ IF artifact = "ok"
       THEN /\ self_obj' = [self_obj EXCEPT ![t] = assistant]
            /\ obj_state' = [obj_state EXCEPT ![assistant] =
                                IF @ = "loaded" THEN "loaded" ELSE "loading"]
            /\ pc' = [pc EXCEPT ![t] = "init_load_assign"]
            /\ UNCHANGED <<init_error, load_failed>>
       ELSE /\ init_error' = IF artifact = "missing" THEN "not_found"
                             ELSE "load_error"
            /\ load_failed' = TRUE
            /\ pc' = [pc EXCEPT ![t] = "handler"]
            /\ UNCHANGED <<self_obj, obj_state>>
    /\ UNCHANGED <<ML_MODEL_AVAILABLE, artifact, assistant,
                   symptom_extractor, initialized, request, resp,
                   load_count>>
    /\ UNCHANGED outside_flask

\* Healthcare_Assistant_System.py:631-646: the fields are assigned
initialize_assistant_load_assign(t) ==
    /\ pc[t] = "init_load_assign"
    /\ obj_state' = [obj_state EXCEPT ![self_obj[t]] = "loaded"]
    /\ self_obj' = [self_obj EXCEPT ![t] = 0]
    /\ pc' = [pc EXCEPT ![t] = "init_extractor"]
    /\ UNCHANGED <<ML_MODEL_AVAILABLE, artifact, assistant,
                   symptom_extractor, initialized, init_error, request,
                   resp, load_count, load_failed>>
    /\ UNCHANGED outside_flask

\* app.py:90-94
initialize_assistant_extractor(t) ==
    /\ pc[t] = "init_extractor"
    /\ symptom_extractor' = assistant
    /\ init_error' = "none"
    /\ pc' = [pc EXCEPT ![t] = "handler"]
    /\ UNCHANGED <<ML_MODEL_AVAILABLE, artifact, assistant, initialized,
                   obj_state, self_obj, request, resp, load_count,
                   load_failed>>
    /\ UNCHANGED outside_flask

\* State of the object the global assistant names (None: "none").
AssistantState == IF assistant = 0 THEN "none" ELSE obj_state[assistant]

\* The readiness test of a handler: app.py:129 and 183 (not assistant),
\* app.py:390 (not assistant or not symptom_extractor); health_check and
\* assess have none.
Ready(e) ==
    CASE e \in {"symptoms", "analyze"} -> assistant # 0
      [] e = "extract" -> assistant # 0 /\ symptom_extractor # 0
      [] OTHER -> TRUE

\* Status codes the body of a handler can end with once its readiness test
\* has passed, given the state of the object the global assistant names.
\*   get_all_symptoms (app.py:134-143) reads assistant.all_symptoms, which
\*     __init__ sets to set(): 200 in every state.
\*   analyze_symptoms (app.py:187-294): 400 without data; otherwise
\*     get_comprehensive_assessment, which on a fresh object fails on
\*     feature_engineer None (Healthcare_Assistant_System.py:437) and is
\*     caught at app.py:286 as 500; on an object whose fields are being
\*     assigned either outcome.
\*   extract_symptoms_endpoint (app.py:394-): 200.
BodyStatuses(e, p, st) ==
    CASE e = "analyze" ->
            IF p = "no_data" THEN {400}
            ELSE CASE st = "loaded" -> {200}
                   [] st = "loading" -> {200, 500}
                   [] OTHER -> {500}
      [] OTHER -> {200}

\* The route handlers: health_check (app.py:115-124), get_all_symptoms
\* (app.py:127-143), analyze_symptoms (app.py:165-294), assess
\* (app.py:297-375), extract_symptoms_endpoint (app.py:378-).  resp.passed
\* is the state of the assistant object the readiness test let through.
handler(t) ==
    /\ pc[t] = "handler"
    /\ LET e == request[t].endpoint
       IN  CASE e = "health" ->
                  resp' = [resp EXCEPT ![t] =
                             [status |-> 200, model_loaded |-> assistant # 0,
                              passed |-> "none", during_init |-> FALSE,
                              triage |-> NoTriage]]
             [] e = "assess" ->
                  resp' = [resp EXCEPT ![t] =
                             [status |-> 200, model_loaded |-> FALSE,
                              passed |-> "none", during_init |-> FALSE,
                              triage |-> assess(request[t].body)]]
             [] OTHER ->
                  IF Ready(e)
                  THEN \E s \in BodyStatuses(e, request[t].payload,
                                             AssistantState) :
                          resp' = [resp EXCEPT ![t] =
                                     [status |-> s, model_loaded |-> FALSE,
                                      passed |-> AssistantState,
                                      during_init |-> InitRunning,
                                      triage |-> NoTriage]]
                  ELSE resp' = [resp EXCEPT ![t] =
                                  [status |-> 503, model_loaded |-> FALSE,
                                   passed |-> "none", during_init |-> FALSE,
                                   triage |-> NoTriage]]
    /\ pc' = [pc EXCEPT ![t] = "respond"]
    /\ UNCHANGED <<ML_MODEL_AVAILABLE, artifact, assistant,
                   symptom_extractor, initialized, init_error, obj_state,
                   self_obj, request, load_count, load_failed>>
    /\ UNCHANGED outside_flask

\* The response leaves the process; the thread keeps nothing of the request.
Return(t) ==
    /\ pc[t] = "respond"
    /\ pc' = [pc EXCEPT ![t] = "idle"]
    /\ request' = [request EXCEPT ![t] = NoRequest]
    /\ resp' = [resp EXCEPT ![t] = NoResp]
    /\ UNCHANGED <<ML_MODEL_AVAILABLE, artifact, assistant,
                   symptom_extractor, initialized, init_error, obj_state,
                   self_obj, load_count, load_failed>>
    /\ UNCHANGED outside_flask

FlaskNext ==
    \/ \E t \in Threads, r \in Requests : ensure_model_loaded(t, r)
    \/ \E t \in Threads : initialize_assistant_gate(t)
    \/ \E t \in Threads : initialize_assistant_set(t)
    \/ \E t \in Threads : initialize_assistant_construct(t)
    \/ \E t \in Threads : initialize_assistant_load_open(t)
    \/ \E t \in Threads : initialize_assistant_load_assign(t)
    \/ \E t \in Threads : initialize_assistant_extractor(t)
    \/ \E t \in Threads : handler(t)
    \/ \E t \in Threads : Return(t)

SpecFlask == FlaskInit /\ [][FlaskNext]_vars

\* Well-formed bodies of POST /api/assess: none, a red flag with a department,
\* and three mild symptoms.
AssessBodies ==
    { NoBody,
      [symptoms |-> <<"Chest Pain">>, severity |-> "", duration |-> ""],
      [symptoms |-> <<"fatigue", "sneezing", "thirst">>, severity |-> "mild",
       duration |-> "days"] }

TriageRequests ==
    { [endpoint |-> "assess", payload |-> "none", body |-> b] :
          b \in AssessBodies }

\* The server when every request is a POST /api/assess.
TriageNext ==
    \/ \E t \in Threads, r \in TriageRequests : ensure_model_loaded(t, r)
    \/ \E t \in Threads : initialize_assistant_gate(t)
    \/ \E t \in Threads : initialize_assistant_set(t)
    \/ \E t \in Threads : initialize_assistant_construct(t)
    \/ \E t \in Threads : initialize_assistant_load_open(t)
    \/ \E t \in Threads : initialize_assistant_load_assign(t)
    \/ \E t \in Threads : initialize_assistant_extractor(t)
    \/ \E t \in Threads : handler(t)
    \/ \E t \in Threads : Return(t)

SpecTriage == FlaskInit /\ [][TriageNext]_vars

-----------------------------------------------------------------------------
(***************************************************************************)
(* Properties of the Flask service                                        *)
(***************************************************************************)

\* C1: for every interleaving of requests that arrive before initialisation
\* has finished, the model load (HealthcareAssistant() followed by
\* load_model, app.py:86-87) is executed at most once per process.
C1_LoadAtMostOnce == load_count <= 1

\* C2: while initialize_assistant is still running, no /api/analyze,
\* /api/symptoms or /api/extract-symptoms handler gets past its readiness
\* test with an assistant object whose load_model has not completed; such a
\* request waits or is answered 503.
C2_NoHandlerPassesDuringInit ==
    \A t \in Threads :
        (pc[t] = "respond" /\ resp[t].during_init)
            => resp[t].passed \notin {"fresh", "loading"}

\* C3: once load_model has raised inside initialize_assistant, every later
\* /api/analyze, /api/symptoms and /api/extract-symptoms request is answered
\* 503, /api/health reports model_loaded = false, and no later request
\* ends in a 500.
C3_NotReadyAfterFailedLoad ==
    \A t \in Threads :
        (pc[t] = "respond" /\ request[t].after_fail) =>
            /\ request[t].endpoint \in {"analyze", "symptoms", "extract"}
                  => resp[t].status = 503
            /\ request[t].endpoint = "health" => ~resp[t].model_loaded
            /\ resp[t].status # 500

\* C22: /api/assess answers 200 with a triage result whether the model
\* initialisation was not attempted, failed or succeeded, and in every
\* response recommended_departments is non-empty and contains 'Emergency'
\* exactly when concern_level is 'high'.
C22_AssessAlwaysTriages ==
    \A t \in Threads :
        (pc[t] = "respond" /\ request[t].endpoint = "assess") =>
            /\ resp[t].status = 200
            /\ resp[t].triage.concern_level \in {"low", "moderate", "high"}
            /\ resp[t].triage.recommended_departments # <<>>
            /\ "Emergency" \in Range(resp[t].triage.recommended_departments)
                  <=> resp[t].triage.concern_level = "high"

\* An urgent triage is answered after the load has failed, while another
\* request is answered a non-urgent one.
C22_Witness ==
    /\ load_failed
    /\ \E t \in Threads :
          /\ pc[t] = "respond" /\ request[t].endpoint = "assess"
          /\ resp[t].triage.concern_level = "high"
          /\ Len(resp[t].triage.recommended_departments) = 2
    /\ \E t \in Threads :
          /\ pc[t] = "respond" /\ request[t].endpoint = "assess"
          /\ resp[t].triage.recommended_departments = <<"General Medicine">>

-----------------------------------------------------------------------------
(***************************************************************************)
(* backend/model/Interract.py: SymptomExtractor                            *)
(***************************************************************************)

\* Interract.py:44-269, in the dict's iteration order; the key 'feeling sick'
\* is written twice (lines 50 and 97) and keeps the later value.
SYMPTOM_PHRASES ==
  <<
    [phrase |-> "not feeling well", symptoms |-> <<"malaise", "fatigue", "weakness">>],
    [phrase |-> "not feeling good", symptoms |-> <<"malaise", "fatigue", "weakness">>],
    [phrase |-> "feeling unwell", symptoms |-> <<"malaise", "fatigue", "weakness">>],
    [phrase |-> "feel unwell", symptoms |-> <<"malaise", "fatigue", "weakness">>],
    [phrase |-> "feeling sick", symptoms |-> <<"nausea">>],
    [phrase |-> "feel sick", symptoms |-> <<"malaise", "nausea">>],
    [phrase |-> "feeling ill", symptoms |-> <<"malaise", "fatigue">>],
    [phrase |-> "feel ill", symptoms |-> <<"malaise", "fatigue">>],
    [phrase |-> "feeling bad", symptoms |-> <<"malaise", "fatigue">>],
    [phrase |-> "under the weather", symptoms |-> <<"malaise", "fatigue", "cold">>],
    [phrase |-> "difficulty in urination", symptoms |-> <<"difficult_urination", "painful_urination">>],
    [phrase |-> "difficulty urinating", symptoms |-> <<"difficult_urination", "painful_urination">>],
    [phrase |-> "painful urination", symptoms |-> <<"painful_urination", "burning_micturition">>],
    [phrase |-> "burning urination", symptoms |-> <<"burning_micturition">>],
    [phrase |-> "frequent urination", symptoms |-> <<"frequent_urination", "polyuria">>],
    [phrase |-> "blood in urine", symptoms |-> <<"blood_in_urine">>],
    [phrase |-> "cant pee", symptoms |-> <<"difficult_urination">>],
    [phrase |-> "hard to urinate", symptoms |-> <<"difficult_urination">>],
    [phrase |-> "high fever", symptoms |-> <<"high_fever", "fever">>],
    [phrase |-> "mild fever", symptoms |-> <<"mild_fever", "fever">>],
    [phrase |-> "fever", symptoms |-> <<"fever">>],
    [phrase |-> "temperature", symptoms |-> <<"fever">>],
    [phrase |-> "feeling hot", symptoms |-> <<"fever">>],
    [phrase |-> "bad headache", symptoms |-> <<"headache", "severe_headache">>],
    [phrase |-> "severe headache", symptoms |-> <<"severe_headache", "headache">>],
    [phrase |-> "headache", symptoms |-> <<"headache">>],
    [phrase |-> "head hurts", symptoms |-> <<"headache">>],
    [phrase |-> "head pain", symptoms |-> <<"headache">>],
    [phrase |-> "migraine", symptoms |-> <<"headache", "migraine">>],
    [phrase |-> "very tired", symptoms |-> <<"fatigue", "weakness">>],
    [phrase |-> "feeling tired", symptoms |-> <<"fatigue">>],
    [phrase |-> "exhausted", symptoms |-> <<"fatigue", "weakness">>],
    [phrase |-> "no energy", symptoms |-> <<"fatigue", "weakness">>],
    [phrase |-> "weakness", symptoms |-> <<"weakness">>],
    [phrase |-> "fatigue", symptoms |-> <<"fatigue">>],
    [phrase |-> "lethargic", symptoms |-> <<"lethargy", "fatigue">>],
    [phrase |-> "stomach pain", symptoms |-> <<"stomach_pain", "abdominal_pain">>],
    [phrase |-> "stomach ache", symptoms |-> <<"stomach_pain", "abdominal_pain">>],
    [phrase |-> "belly pain", symptoms |-> <<"abdominal_pain">>],
    [phrase |-> "abdominal pain", symptoms |-> <<"abdominal_pain">>],
    [phrase |-> "nausea", symptoms |-> <<"nausea">>],
    [phrase |-> "want to vomit", symptoms |-> <<"nausea", "vomiting">>],
    [phrase |-> "vomiting", symptoms |-> <<"vomiting">>],
    [phrase |-> "throwing up", symptoms |-> <<"vomiting">>],
    [phrase |-> "diarrhea", symptoms |-> <<"diarrhoea">>],
    [phrase |-> "loose motion", symptoms |-> <<"diarrhoea">>],
    [phrase |-> "loose stool", symptoms |-> <<"diarrhoea">>],
    [phrase |-> "constipation", symptoms |-> <<"constipation">>],
    [phrase |-> "acidity", symptoms |-> <<"acidity", "heartburn">>],
    [phrase |-> "heartburn", symptoms |-> <<"heartburn", "acidity">>],
    [phrase |-> "indigestion", symptoms |-> <<"indigestion">>],
    [phrase |-> "bloating", symptoms |-> <<"bloating", "stomach_bloating">>],
    [phrase |-> "gas", symptoms |-> <<"gas", "bloating">>],
    [phrase |-> "cough", symptoms |-> <<"cough">>],
    [phrase |-> "coughing", symptoms |-> <<"cough">>],
    [phrase |-> "dry cough", symptoms |-> <<"cough">>],
    [phrase |-> "wet cough", symptoms |-> <<"cough", "phlegm">>],
    [phrase |-> "cold", symptoms |-> <<"cold", "common_cold">>],
    [phrase |-> "runny nose", symptoms |-> <<"runny_nose">>],
    [phrase |-> "blocked nose", symptoms |-> <<"congestion", "nasal_congestion">>],
    [phrase |-> "stuffy nose", symptoms |-> <<"congestion", "nasal_congestion">>],
    [phrase |-> "sneezing", symptoms |-> <<"sneezing", "continuous_sneezing">>],
    [phrase |-> "shortness of breath", symptoms |-> <<"shortness_of_breath", "breathlessness">>],
    [phrase |-> "difficulty breathing", symptoms |-> <<"breathlessness", "shortness_of_breath">>],
    [phrase |-> "hard to breathe", symptoms |-> <<"breathlessness">>],
    [phrase |-> "cant breathe", symptoms |-> <<"breathlessness">>],
    [phrase |-> "wheezing", symptoms |-> <<"wheezing">>],
    [phrase |-> "chest congestion", symptoms |-> <<"congestion_in_chest">>],
    [phrase |-> "chest pain", symptoms |-> <<"chest_pain">>],
    [phrase |-> "chest hurts", symptoms |-> <<"chest_pain">>],
    [phrase |-> "heart pain", symptoms |-> <<"chest_pain">>],
    [phrase |-> "palpitations", symptoms |-> <<"palpitations", "fast_heart_rate">>],
    [phrase |-> "heart racing", symptoms |-> <<"palpitations", "fast_heart_rate">>],
    [phrase |-> "sweating", symptoms |-> <<"sweating", "excessive_sweating">>],
    [phrase |-> "skin rash", symptoms |-> <<"skin_rash", "rash">>],
    [phrase |-> "rash", symptoms |-> <<"skin_rash", "rash">>],
    [phrase |-> "itching", symptoms |-> <<"itching">>],
    [phrase |-> "itchy skin", symptoms |-> <<"itching">>],
    [phrase |-> "red skin", symptoms |-> <<"redness", "skin_rash">>],
    [phrase |-> "acne", symptoms |-> <<"acne", "pimples">>],
    [phrase |-> "pimples", symptoms |-> <<"acne", "pimples">>],
    [phrase |-> "yellow skin", symptoms |-> <<"yellowish_skin", "jaundice">>],
    [phrase |-> "skin peeling", symptoms |-> <<"skin_peeling">>],
    [phrase |-> "dry skin", symptoms |-> <<"dry_skin">>],
    [phrase |-> "body pain", symptoms |-> <<"body_pain", "muscle_pain">>],
    [phrase |-> "body ache", symptoms |-> <<"body_pain", "muscle_pain">>],
    [phrase |-> "muscle pain", symptoms |-> <<"muscle_pain">>],
    [phrase |-> "joint pain", symptoms |-> <<"joint_pain">>],
    [phrase |-> "knee pain", symptoms |-> <<"joint_pain", "knee_pain">>],
    [phrase |-> "back pain", symptoms |-> <<"back_pain">>],
    [phrase |-> "neck pain", symptoms |-> <<"neck_pain">>],
    [phrase |-> "leg pain", symptoms |-> <<"leg_pain">>],
    [phrase |-> "anxiety", symptoms |-> <<"anxiety">>],
    [phrase |-> "feeling anxious", symptoms |-> <<"anxiety">>],
    [phrase |-> "depression", symptoms |-> <<"depression">>],
    [phrase |-> "feeling sad", symptoms |-> <<"depression">>],
    [phrase |-> "cant sleep", symptoms |-> <<"insomnia", "sleeplessness">>],
    [phrase |-> "insomnia", symptoms |-> <<"insomnia">>],
    [phrase |-> "sleeplessness", symptoms |-> <<"insomnia", "sleeplessness">>],
    [phrase |-> "dizziness", symptoms |-> <<"dizziness">>],
    [phrase |-> "feeling dizzy", symptoms |-> <<"dizziness">>],
    [phrase |-> "vertigo", symptoms |-> <<"dizziness", "vertigo">>],
    [phrase |-> "confusion", symptoms |-> <<"confusion", "altered_sensorium">>],
    [phrase |-> "mood swings", symptoms |-> <<"mood_swings">>],
    [phrase |-> "irritability", symptoms |-> <<"irritability">>],
    [phrase |-> "stress", symptoms |-> <<"anxiety", "stress">>],
    [phrase |-> "blurred vision", symptoms |-> <<"blurred_vision">>],
    [phrase |-> "blurry vision", symptoms |-> <<"blurred_vision">>],
    [phrase |-> "eye pain", symptoms |-> <<"pain_in_eye">>],
    [phrase |-> "red eyes", symptoms |-> <<"redness_in_eye">>],
    [phrase |-> "watery eyes", symptoms |-> <<"watering_from_eyes">>],
    [phrase |-> "sore throat", symptoms |-> <<"sore_throat">>],
    [phrase |-> "throat pain", symptoms |-> <<"sore_throat">>],
    [phrase |-> "difficulty swallowing", symptoms |-> <<"difficulty_swallowing">>],
    [phrase |-> "hard to swallow", symptoms |-> <<"difficulty_swallowing">>],
    [phrase |-> "weight loss", symptoms |-> <<"weight_loss">>],
    [phrase |-> "losing weight", symptoms |-> <<"weight_loss">>],
    [phrase |-> "weight gain", symptoms |-> <<"weight_gain">>],
    [phrase |-> "gaining weight", symptoms |-> <<"weight_gain">>],
    [phrase |-> "loss of appetite", symptoms |-> <<"loss_of_appetite">>],
    [phrase |-> "not hungry", symptoms |-> <<"loss_of_appetite">>],
    [phrase |-> "excessive hunger", symptoms |-> <<"excessive_hunger">>],
    [phrase |-> "always hungry", symptoms |-> <<"excessive_hunger">>],
    [phrase |-> "increased thirst", symptoms |-> <<"excessive_thirst", "polydipsia">>],
    [phrase |-> "very thirsty", symptoms |-> <<"excessive_thirst">>],
    [phrase |-> "swelling", symptoms |-> <<"swelling">>],
    [phrase |-> "swollen", symptoms |-> <<"swelling">>],
    [phrase |-> "chills", symptoms |-> <<"chills">>],
    [phrase |-> "shivering", symptoms |-> <<"shivering", "chills">>],
    [phrase |-> "night sweats", symptoms |-> <<"night_sweats">>],
    [phrase |-> "dehydration", symptoms |-> <<"dehydration">>],
    [phrase |-> "my head hurts", symptoms |-> <<"headache">>],
    [phrase |-> "head is pounding", symptoms |-> <<"headache", "severe_headache">>],
    [phrase |-> "splitting headache", symptoms |-> <<"severe_headache">>],
    [phrase |-> "tummy ache", symptoms |-> <<"stomach_pain", "abdominal_pain">>],
    [phrase |-> "upset stomach", symptoms |-> <<"stomach_pain", "nausea", "indigestion">>],
    [phrase |-> "stomach upset", symptoms |-> <<"stomach_pain", "nausea">>],
    [phrase |-> "running a fever", symptoms |-> <<"fever">>],
    [phrase |-> "burning up", symptoms |-> <<"high_fever">>],
    [phrase |-> "feel feverish", symptoms |-> <<"fever">>],
    [phrase |-> "feel like vomiting", symptoms |-> <<"nausea">>],
    [phrase |-> "feel nauseous", symptoms |-> <<"nausea">>],
    [phrase |-> "out of breath", symptoms |-> <<"shortness_of_breath">>],
    [phrase |-> "gasping for air", symptoms |-> <<"breathlessness">>],
    [phrase |-> "trouble breathing", symptoms |-> <<"breathlessness">>],
    [phrase |-> "feeling weak", symptoms |-> <<"weakness", "fatigue">>],
    [phrase |-> "no strength", symptoms |-> <<"weakness">>],
    [phrase |-> "body feels weak", symptoms |-> <<"weakness", "fatigue">>],
    [phrase |-> "skin is itchy", symptoms |-> <<"itching">>],
    [phrase |-> "scratching a lot", symptoms |-> <<"itching">>],
    [phrase |-> "itchy all over", symptoms |-> <<"itching">>],
    [phrase |-> "feeling numb", symptoms |-> <<"numbness">>],
    [phrase |-> "pins and needles", symptoms |-> <<"tingling">>],
    [phrase |-> "tingling sensation", symptoms |-> <<"tingling">>],
    [phrase |-> "cant eat", symptoms |-> <<"loss_of_appetite">>],
    [phrase |-> "dont feel like eating", symptoms |-> <<"loss_of_appetite">>],
    [phrase |-> "no appetite", symptoms |-> <<"loss_of_appetite">>],
    [phrase |-> "peeing a lot", symptoms |-> <<"frequent_urination">>],
    [phrase |-> "going to bathroom frequently", symptoms |-> <<"frequent_urination">>],
    [phrase |-> "burning when i pee", symptoms |-> <<"burning_micturition">>],
    [phrase |-> "seeing double", symptoms |-> <<"blurred_vision">>],
    [phrase |-> "vision is blurry", symptoms |-> <<"blurred_vision">>],
    [phrase |-> "eyes are blurry", symptoms |-> <<"blurred_vision">>],
    [phrase |-> "feeling cold", symptoms |-> <<"chills">>],
    [phrase |-> "getting chills", symptoms |-> <<"chills">>],
    [phrase |-> "body shaking", symptoms |-> <<"shivering">>],
    [phrase |-> "yellow eyes", symptoms |-> <<"yellowing_of_eyes", "jaundice">>],
    [phrase |-> "skin turning yellow", symptoms |-> <<"yellowish_skin", "jaundice">>],
    [phrase |-> "swollen legs", symptoms |-> <<"swelling_of_legs", "swelling">>],
    [phrase |-> "feet are swollen", symptoms |-> <<"swelling_of_legs", "swelling">>],
    [phrase |-> "face is puffy", symptoms |-> <<"puffy_face", "swelling">>],
    [phrase |-> "muscle cramps", symptoms |-> <<"muscle_cramps", "cramps">>],
    [phrase |-> "leg cramps", symptoms |-> <<"cramps", "muscle_cramps">>],
    [phrase |-> "feeling faint", symptoms |-> <<"dizziness", "fainting">>],
    [phrase |-> "about to faint", symptoms |-> <<"dizziness", "fainting">>],
    [phrase |-> "passed out", symptoms |-> <<"fainting", "loss_of_consciousness">>],
    [phrase |-> "memory problems", symptoms |-> <<"memory_loss">>],
    [phrase |-> "cant remember", symptoms |-> <<"memory_loss">>],
    [phrase |-> "forgetful", symptoms |-> <<"memory_loss">>],
    [phrase |-> "trouble sleeping", symptoms |-> <<"insomnia", "sleeplessness">>],
    [phrase |-> "cant fall asleep", symptoms |-> <<"insomnia">>],
    [phrase |-> "waking up at night", symptoms |-> <<"insomnia">>],
    [phrase |-> "sleeping too much", symptoms |-> <<"excessive_sleep", "fatigue">>],
    [phrase |-> "always sleepy", symptoms |-> <<"fatigue", "lethargy">>],
    [phrase |-> "feeling restless", symptoms |-> <<"restlessness", "anxiety">>],
    [phrase |-> "cant sit still", symptoms |-> <<"restlessness">>],
    [phrase |-> "heart beating fast", symptoms |-> <<"palpitations", "fast_heart_rate">>],
    [phrase |-> "heart pounding", symptoms |-> <<"palpitations">>],
    [phrase |-> "irregular heartbeat", symptoms |-> <<"irregular_heartbeat", "palpitations">>],
    [phrase |-> "chest tightness", symptoms |-> <<"chest_pain", "chest_tightness">>],
    [phrase |-> "pressure in chest", symptoms |-> <<"chest_pain">>],
    [phrase |-> "burning in chest", symptoms |-> <<"heartburn", "chest_pain">>]
  >>

\* Interract.py:272-298
SINGLE_WORD_SYMPTOMS ==
  <<
    [word |-> "fever", symptoms |-> <<"fever">>],
    [word |-> "headache", symptoms |-> <<"headache">>],
    [word |-> "cough", symptoms |-> <<"cough">>],
    [word |-> "cold", symptoms |-> <<"cold">>],
    [word |-> "fatigue", symptoms |-> <<"fatigue">>],
    [word |-> "tired", symptoms |-> <<"fatigue">>],
    [word |-> "weakness", symptoms |-> <<"weakness">>],
    [word |-> "nausea", symptoms |-> <<"nausea">>],
    [word |-> "vomiting", symptoms |-> <<"vomiting">>],
    [word |-> "diarrhea", symptoms |-> <<"diarrhoea">>],
    [word |-> "constipation", symptoms |-> <<"constipation">>],
    [word |-> "acidity", symptoms |-> <<"acidity">>],
    [word |-> "itching", symptoms |-> <<"itching">>],
    [word |-> "rash", symptoms |-> <<"skin_rash">>],
    [word |-> "sweating", symptoms |-> <<"sweating">>],
    [word |-> "chills", symptoms |-> <<"chills">>],
    [word |-> "dizziness", symptoms |-> <<"dizziness">>],
    [word |-> "anxiety", symptoms |-> <<"anxiety">>],
    [word |-> "depression", symptoms |-> <<"depression">>],
    [word |-> "insomnia", symptoms |-> <<"insomnia">>],
    [word |-> "sneezing", symptoms |-> <<"sneezing">>],
    [word |-> "wheezing", symptoms |-> <<"wheezing">>],
    [word |-> "bloating", symptoms |-> <<"bloating">>],
    [word |-> "swelling", symptoms |-> <<"swelling">>],
    [word |-> "palpitations", symptoms |-> <<"palpitations">>]
  >>

\* Interract.py:310-320
sick_indicator_phrases ==
  <<
    "not feeling well", "not feeling good", "not feeling fine",
    "not feeling okay", "not feeling ok", "dont feel well",
    "don't feel well", "dont feel good", "don't feel good", "not well",
    "not good", "not fine", "not okay", "feeling unwell", "feel unwell",
    "feeling sick", "feel sick", "feeling bad", "feel bad", "feeling ill",
    "feel ill", "feeling terrible", "feeling awful", "feeling worse",
    "something wrong", "something is wrong", "not right",
    "under the weather", "came down with"
  >>

\* Interract.py:324-336
no_symptom_phrases ==
  <<
    "no symptom", "no symptoms", "i am fine", "i am well", "i am good",
    "i am okay", "i am ok", "nothing wrong", "no problem", "no issues",
    "all good", "doing well", "doing fine", "doing good", "not sick",
    "no pain", "no discomfort", "perfectly fine", "completely fine",
    "totally fine", "absolutely fine", "feeling well", "feeling good",
    "feeling fine", "feeling great", "feeling okay", "feeling ok",
    "feeling healthy", "feeling better", "feel well", "feel good",
    "feel fine", "feel great", "feel okay", "i feel well", "i feel good",
    "i feel fine", "i feel great", "im fine", "i'm fine", "im good",
    "i'm good", "im okay", "i'm okay", "im well", "i'm well", "healthy",
    "just checking", "just testing"
  >>

\* Interract.py:339-343
blacklist_words ==
  {
    "a", "am", "an", "are", "feel", "feeling", "fine", "good", "had", "has",
    "have", "healthy", "i", "is", "me", "my", "none", "normal", "nothing",
    "ok", "okay", "symptoms", "the", "was", "well"
  }

\* Interract.py:306: set(stopwords.words('english')), the NLTK English list
stop_words ==
  {
    "i", "me", "my", "myself", "we", "our", "ours", "ourselves", "you",
    "you're", "you've", "you'll", "you'd", "your", "yours", "yourself",
    "yourselves", "he", "him", "his", "himself", "she", "she's", "her",
    "hers", "herself", "it", "it's", "its", "itself", "they", "them",
    "their", "theirs", "themselves", "what", "which", "who", "whom", "this",
    "that", "that'll", "these", "those", "am", "is", "are", "was", "were",
    "be", "been", "being", "have", "has", "had", "having", "do", "does",
    "did", "doing", "a", "an", "the", "and", "but", "if", "or", "because",
    "as", "until", "while", "of", "at", "by", "for", "with", "about",
    "against", "between", "into", "through", "during", "before", "after",
    "above", "below", "to", "from", "up", "down", "in", "out", "on", "off",
    "over", "under", "again", "further", "then", "once", "here", "there",
    "when", "where", "why", "how", "all", "any", "both", "each", "few",
    "more", "most", "other", "some", "such", "no", "nor", "not", "only",
    "own", "same", "so", "than", "too", "very", "s", "t", "can", "will",
    "just", "don", "don't", "should", "should've", "now", "d", "ll", "m",
    "o", "re", "ve", "y", "ain", "aren", "aren't", "couldn", "couldn't",
    "didn", "didn't", "doesn", "doesn't", "hadn", "hadn't", "hasn",
    "hasn't", "haven", "haven't", "isn", "isn't", "ma", "mightn",
    "mightn't", "mustn", "mustn't", "needn", "needn't", "shan", "shan't",
    "shouldn", "shouldn't", "wasn", "wasn't", "weren", "weren't", "won",
    "won't", "wouldn", "wouldn't"
  }

\* Interract.py:345-359
sanitize_input(user_input) ==
    LET t1 == Strip(Lower(user_input))
        t2 == Join(Words(t1), " ")
        t3 == ReplaceSpecial(t2)
        t4 == CollapseSpaces(t3)
    IN  Strip(t4)

\* _check_is_user_healthy without the priority of the sick phrases
check_is_user_healthy_no_priority(user_input) ==
    \E i \in 1..Len(no_symptom_phrases) :
        Contains(no_symptom_phrases[i], user_input)

\* _check_is_user_healthy that never finds the user healthy
check_is_user_healthy_never(user_input) == FALSE

\* Interract.py:361-375
check_is_user_healthy(user_input) ==
    IF \E i \in 1..Len(sick_indicator_phrases) :
          Contains(sick_indicator_phrases[i], user_input)
    THEN FALSE
    ELSE \E i \in 1..Len(no_symptom_phrases) :
            Contains(no_symptom_phrases[i], user_input)

\* Interract.py:482-495: the token-overlap loop over the vocabulary in its
\* enumeration order, from the i-th symptom on; scores are fractions
\* num/den, thr = <<num, den>>, best = [match, num, den]
RECURSIVE TokenOverlapLoop(_, _, _, _, _)
TokenOverlapLoop(known, i, symptom_tokens, thr, best) ==
    IF i > Len(known) THEN best.match
    ELSE
      At(LAMBDA known_tokens :
           LET overlap == Cardinality(symptom_tokens \cap known_tokens)
               m == IF Cardinality(symptom_tokens) >= Cardinality(known_tokens)
                    THEN Cardinality(symptom_tokens)
                    ELSE Cardinality(known_tokens)
               better == /\ known_tokens # {}
                         /\ overlap > 0
                         /\ overlap * best.den > best.num * m
                         /\ overlap * thr[2] >= thr[1] * m
           IN  At(LAMBDA b : TokenOverlapLoop(known, i + 1, symptom_tokens, thr, b),
                  IF better THEN [match |-> known[i], num |-> overlap, den |-> m]
                  ELSE best),
         {t \in Range(Split(known[i], "_")) : Len(t) > 2})

\* Interract.py:446-497; known is the vocabulary in the order the set
\* enumerates it
fuzzy_match(symptom, thr, known) ==
    At(LAMBDA symptom_normalized :
         LET n == Len(symptom_normalized)
             sub == {i \in 1..Len(known) :
                       /\ n >= 5
                       /\ \/ /\ Contains(symptom_normalized, known[i])
                             /\ 10 * n >= 6 * Len(known[i])
                          \/ /\ Contains(known[i], symptom_normalized)
                             /\ 10 * Len(known[i]) >= 6 * n}
         IN  IF n < 4 THEN None
             ELSE IF symptom_normalized \in blacklist_words THEN None
             ELSE IF symptom_normalized \in Range(known) THEN symptom_normalized
             ELSE IF sub # {}
                  THEN known[CHOOSE i \in sub : \A j \in sub : i <= j]
             ELSE At(LAMBDA symptom_tokens :
                       IF symptom_tokens = {} THEN None
                       ELSE TokenOverlapLoop(known, 1, symptom_tokens, thr,
                                [match |-> None, num |-> 0, den |-> 1]),
                     {t \in Range(Split(symptom_normalized, "_")) :
                        t \notin blacklist_words /\ Len(t) > 2}),
       Replace(Replace(Lower(symptom), " ", "_"), "-", "_"))

\* A dictionary symptom taken as it is, in the vocabulary or not
Resolve_unverified(symptom, known) == symptom

\* Interract.py:399-407 and 418-423: a dictionary symptom is taken as it is
\* when the vocabulary has it, else fuzzy-matched at the default threshold
Resolve(symptom, known) ==
    IF symptom \in Range(known) THEN symptom
    ELSE fuzzy_match(symptom, <<8, 10>>, known)

\* The resolved symptoms of one dictionary entry, None for those dropped.
ResolveAll(symptoms, known) ==
    [j \in 1..Len(symptoms) |-> Resolve(symptoms[j], known)]

NotNone(x) == x # None

\* The phrase step left out
PhraseStep_skipped(user_input, known) == <<>>

\* Interract.py:395-407: <<phrase, symptom>> for every symptom added, in the
\* order of the additions
PhraseStep(user_input, known) ==
    LET Hits(i) ==
          IF Contains(SYMPTOM_PHRASES[i].phrase, user_input)
          THEN At(LAMBDA got :
                    [j \in 1..Len(got) |-> <<SYMPTOM_PHRASES[i].phrase, got[j]>>],
                  SelectSeq(ResolveAll(SYMPTOM_PHRASES[i].symptoms, known),
                            NotNone))
          ELSE <<>>
    IN  ConcatSeq(Hits, 1, Len(SYMPTOM_PHRASES))

\* SINGLE_WORD_SYMPTOMS[word], <<>> when the word is no key
SingleWordEntry(word) ==
    LET hit == {i \in 1..Len(SINGLE_WORD_SYMPTOMS) :
                  SINGLE_WORD_SYMPTOMS[i].word = word}
    IN  IF hit = {} THEN <<>>
        ELSE SINGLE_WORD_SYMPTOMS[CHOOSE i \in hit : TRUE].symptoms

\* Interract.py:410-423: the symptoms the single-word step adds
WordStep(user_input, known) ==
    At(LAMBDA words :
         UNION { At(LAMBDA clean_word :
                      IF clean_word \in blacklist_words THEN {}
                      ELSE Range(ResolveAll(SingleWordEntry(clean_word), known))
                           \ {None},
                    Lower(StripChars(words[i], punctuation)))
                 : i \in 1..Len(words) },
       Words(user_input))

\* Interract.py:428: nltk.word_tokenize, as far as the filter of lines
\* 429-432 can tell: the whitespace-separated words with the punctuation
\* at their ends split off
word_tokenize(user_input) ==
    At(LAMBDA words : [i \in 1..Len(words) |-> StripChars(words[i], punctuation)],
       Words(user_input))

\* Interract.py:435: WordNetLemmatizer.lemmatize: the plural ending goes
\* when WordNet (in_wordnet) has the stem as a noun, else the token stays
lemmatize(token, in_wordnet) ==
    IF /\ Len(token) > 1
       /\ Char(token, Len(token)) = "s"
       /\ SubSeq(token, 1, Len(token) - 1) \in in_wordnet
    THEN SubSeq(token, 1, Len(token) - 1)
    ELSE token

\* Interract.py:427-442: the symptoms the fallback step adds
TokenStep(user_input, known, in_wordnet) ==
    LET Keep(t) == /\ t \notin stop_words
                   /\ ~Contains(t, punctuation)
                   /\ t \notin blacklist_words
                   /\ Len(t) > 2
    IN  At(LAMBDA tokens :
             { At(LAMBDA lemma :
                    IF lemma \in blacklist_words THEN None
                    ELSE fuzzy_match(lemma, <<85, 100>>, known),
                  lemmatize(tokens[i], in_wordnet)) : i \in 1..Len(tokens) }
             \ {None},
           SelectSeq(word_tokenize(user_input), Keep))

\* The three steps with the third run whatever the first two found
MatchSteps_always_tokenizing(user_input, known, in_wordnet) ==
    At(LAMBDA pairs :
         [symptoms |-> {pairs[i][2] : i \in 1..Len(pairs)}
                          \cup WordStep(user_input, known)
                          \cup TokenStep(user_input, known, in_wordnet),
          matched_phrases |-> [i \in 1..Len(pairs) |-> pairs[i][1]],
          path |-> "matched",
          fallback |-> TRUE,
          user_input |-> user_input],
       PhraseStep(user_input, known))

\* Interract.py:394-444, on the sanitized text
MatchSteps(user_input, known, in_wordnet) ==
    At(LAMBDA pairs :
         At(LAMBDA step12 :
              [symptoms |-> IF step12 = {}
                            THEN TokenStep(user_input, known, in_wordnet)
                            ELSE step12,
               matched_phrases |-> [i \in 1..Len(pairs) |-> pairs[i][1]],
               path |-> "matched",
               fallback |-> step12 = {},
               user_input |-> user_input],
            {pairs[i][2] : i \in 1..Len(pairs)} \cup WordStep(user_input, known)),
       PhraseStep(user_input, known))

\* extract_symptoms returning ([], []) at the line the path names
Nothing(user_input, path) ==
    [symptoms |-> {}, matched_phrases |-> <<>>, path |-> path,
     fallback |-> FALSE, user_input |-> user_input]

\* extract_symptoms without the length test of lines 381-385
extract_symptoms_no_length_test(raw_input, known, in_wordnet) ==
    At(LAMBDA user_input :
         IF check_is_user_healthy(user_input)
         THEN Nothing(user_input, "healthy")
         ELSE MatchSteps(user_input, known, in_wordnet),
       sanitize_input(raw_input))

\* Interract.py:377-444.  path records where the call returned: "short"
\* (line 385), "healthy" (line 392) or "matched" (line 444); fallback
\* whether the third step ran; user_input the text after line 378.
extract_symptoms(raw_input, known, in_wordnet) ==
    At(LAMBDA user_input :
         IF Len(user_input) < 3 THEN Nothing(user_input, "short")
         ELSE IF check_is_user_healthy(user_input)
         THEN Nothing(user_input, "healthy")
         ELSE MatchSteps(user_input, known, in_wordnet),
       sanitize_input(raw_input))

-----------------------------------------------------------------------------
(***************************************************************************)
(* extract_symptoms on texts put together from pieces, for the             *)
(* vocabularies of several artifacts                                       *)
(***************************************************************************)

\* Longest text, in pieces.
MaxFragments == 2

\* Pieces of text a user may type.
Fragments ==
    { "I have a bad headache, fever and feel very tired",
      "not feeling well",
      "I feel great, no symptoms",
      "Healthy!",
      "blocked nose",
      "jaundice",
      "vomits",
      " ",
      "ok" }

\* Vocabularies (all_symptoms of a loaded artifact), each in an order its
\* set may enumerate in.
Vocabularies ==
    { <<>>,
      <<"headache", "fever", "fatigue">>,
      <<"nasal_congestion", "chest_congestion", "vomiting", "jaundice">>,
      <<"jaundice", "vomiting", "chest_congestion", "nasal_congestion">> }

\* Stems WordNet may or may not list as nouns.
WordNetStems == {"vomit"}

ExtractInit ==
    /\ known_symptoms \in Vocabularies
    /\ input_text = ""
    /\ typed = 0
    /\ ex_pc = "typing"
    /\ ex = NoExtraction
    /\ FlaskOff
    /\ AssessOff
    /\ NormalizeOff
    /\ TrainOff
    /\ ServiceOff
    /\ MatchOff
    /\ SeverityOff
    /\ AugmentOff
    /\ MemCacheOff

\* The user adds a piece to the text.
Type(f) ==
    /\ ex_pc = "typing"
    /\ typed < MaxFragments
    /\ input_text' = input_text \o f
    /\ typed' = typed + 1
    /\ UNCHANGED <<known_symptoms, ex_pc, ex>>
    /\ UNCHANGED outside_extract

\* symptom_extractor.extract_symptoms(text), app.py:216 and 417
ExtractCall ==
    /\ ex_pc = "typing"
    /\ \E in_wordnet \in SUBSET WordNetStems :
          ex' = extract_symptoms(input_text, known_symptoms, in_wordnet)
    /\ ex_pc' = "done"
    /\ UNCHANGED <<known_symptoms, input_text, typed>>
    /\ UNCHANGED outside_extract

ExtractNext ==
    \/ \E f \in Fragments : Type(f)
    \/ ExtractCall

SpecExtract == ExtractInit /\ [][ExtractNext]_vars


-----------------------------------------------------------------------------
(***************************************************************************)
(* Properties of extract_symptoms                                          *)
(***************************************************************************)

HasSickPhrase(text) ==
    \E i \in 1..Len(sick_indicator_phrases) :
        Contains(sick_indicator_phrases[i], text)

HasNoSymptomPhrase(text) ==
    \E i \in 1..Len(no_symptom_phrases) :
        Contains(no_symptom_phrases[i], text)

\* C4: when the sanitized text contains a sick-indicator phrase,
\* extract_symptoms does not return at the healthy short-circuit but goes on
\* to the matching steps, whether or not the text also contains a
\* no-symptom phrase.
C4_SickPhraseTakesPriority ==
    (ex_pc = "done" /\ HasSickPhrase(ex.user_input)) => ex.path = "matched"

\* A call on a text with a sick-indicator phrase and a no-symptom phrase
\* ("not feeling well" contains "feeling well") that went on to match.
C4_Witness ==
    /\ ex_pc = "done"
    /\ HasSickPhrase(ex.user_input)
    /\ HasNoSymptomPhrase(ex.user_input)
    /\ ex.path = "matched"
    /\ ex.symptoms # {}

C6_SymptomsInVocabulary ==
    ex_pc = "done" => ex.symptoms \subseteq Range(known_symptoms)

\* A call whose phrase step met a dictionary symptom the vocabulary lacks
\* ('blocked nose' maps to congestion) and resolved it by _fuzzy_match.
C6_Witness ==
    /\ ex_pc = "done"
    /\ ex.user_input = "blocked nose"
    /\ "congestion" \notin Range(known_symptoms)
    /\ "chest_congestion" \in ex.symptoms
    /\ ~ex.fallback

\* C7: when the healthy short-circuit does not fire, every symptom of every
\* SYMPTOM_PHRASES key in the sanitized text that the vocabulary has is
\* returned; the sentence 'I have a bad headache, fever and feel very tired'
\* yields headache, fever and fatigue when the vocabulary has them.
C7_MatchedPhrasesContribute ==
    (ex_pc = "done" /\ ex.path # "healthy") =>
        /\ \A i \in 1..Len(SYMPTOM_PHRASES) :
              Contains(SYMPTOM_PHRASES[i].phrase, ex.user_input) =>
                  (Range(SYMPTOM_PHRASES[i].symptoms) \cap Range(known_symptoms))
                      \subseteq ex.symptoms
        /\ (/\ input_text = "I have a bad headache, fever and feel very tired"
            /\ {"headache", "fever", "fatigue"} \subseteq Range(known_symptoms))
              => {"headache", "fever", "fatigue"} \subseteq ex.symptoms

\* The call on the sentence, with the three symptoms in the vocabulary.
C7_Witness ==
    /\ ex_pc = "done"
    /\ input_text = "I have a bad headache, fever and feel very tired"
    /\ ex.path = "matched"
    /\ ex.symptoms = {"headache", "fever", "fatigue"}

\* C8: when the sanitized text has fewer than 3 characters, extract_symptoms
\* returns ([], []) at the length test; the call ends in a return for the
\* empty text and for texts of whitespace and special characters too.
C8_ShortInputReturnsEmpty ==
    (ex_pc = "done" /\ Len(ex.user_input) < 3)
        => /\ ex.symptoms = {}
           /\ ex.matched_phrases = <<>>
           /\ ex.path = "short"

\* A call on a non-empty text that sanitizes to the empty string.
C8_Witness ==
    /\ ex_pc = "done"
    /\ Len(input_text) > 0
    /\ ex.user_input = ""
    /\ ex.path = "short"
    /\ ex.symptoms = {}
    /\ ex.matched_phrases = <<>>

\* The symptoms phrase matching and single-word matching add between them.
FirstTwoSteps ==
    LET pairs == PhraseStep(ex.user_input, known_symptoms)
    IN  {pairs[i][2] : i \in 1..Len(pairs)}
           \cup WordStep(ex.user_input, known_symptoms)

\* C27: in extract_symptoms the fallback tokenization runs only when phrase
\* matching and single-word matching together produced no symptom;
\* otherwise the list returned holds exactly the symptoms of those two steps.
C27_FallbackOnlyWhenNothingMatched ==
    (ex_pc = "done" /\ ex.path = "matched") =>
        /\ ex.fallback => FirstTwoSteps = {}
        /\ FirstTwoSteps # {} => ex.symptoms = FirstTwoSteps

\* A call in which the first two steps found nothing and the fallback found
\* a symptom.
C27_Witness ==
    /\ ex_pc = "done"
    /\ ex.path = "matched"
    /\ ex.fallback
    /\ FirstTwoSteps = {}
    /\ ex.symptoms # {}

-----------------------------------------------------------------------------
(***************************************************************************)
(* backend/model/Healthcare_Assistant_System.py: HealthcareAssistant on a  *)
(* loaded artifact                                                         *)
(***************************************************************************)

Min(a, b) == IF a <= b THEN a ELSE b
Max(a, b) == IF a >= b THEN a ELSE b

\* Fractions <<numerator, denominator>> with positive denominators
Gt(x, y) == x[1] * y[2] > y[1] * x[2]
Ge(x, y) == x[1] * y[2] >= y[1] * x[2]

\* str.isalnum() on the characters of the model's texts
IsAlnum(c) == CharIn(c, LowerCase) \/ CharIn(c, UpperCase) \/ CharIn(c, Digits)

\* str(symptom), Healthcare_Assistant_System.py:196, of a string or of None
Str(symptom) == IF symptom = None THEN "None" ELSE symptom

\* _normalize_symptom with line 194 testing for the empty string only
normalize_symptom_without_isna(symptom) ==
    IF symptom = "" THEN None
    ELSE At(LAMBDA s : IF s = "" THEN None ELSE s,
            MapChars(LAMBDA c : IF IsAlnum(c) \/ c = "_" THEN c ELSE "",
                     Replace(Replace(Strip(Lower(Str(symptom))), " ", "_"),
                             "-", "_")))

\* Healthcare_Assistant_System.py:192-199; pd.isna(None) is True
normalize_symptom(symptom) ==
    IF symptom = None \/ symptom = "" THEN None
    ELSE At(LAMBDA s : IF s = "" THEN None ELSE s,
            MapChars(LAMBDA c : IF IsAlnum(c) \/ c = "_" THEN c ELSE "",
                     Replace(Replace(Strip(Lower(Str(symptom))), " ", "_"),
                             "-", "_")))

\* Length of the longest common run of a from i and of b from j that stays
\* within a[..ahi] and b[..bhi].
RunLength(a, b, i, j, ahi, bhi) ==
    Cardinality({k \in 1..Min(ahi - i + 1, bhi - j + 1) :
                   SubSeq(a, i, i + k - 1) = SubSeq(b, j, j + k - 1)})

\* difflib.SequenceMatcher.find_longest_match on a[alo..ahi], b[blo..bhi]:
\* <<i, j, k>>, the longest block, of those the one starting first in a,
\* of those the one starting first in b; k = 0 when nothing matches.
find_longest_match(a, b, alo, ahi, blo, bhi) ==
    At(LAMBDA runs :
         IF runs = {} THEN <<alo, blo, 0>>
         ELSE CHOOSE r \in runs : \A q \in runs :
                \/ r[3] > q[3]
                \/ r[3] = q[3] /\ r[1] < q[1]
                \/ r[3] = q[3] /\ r[1] = q[1] /\ r[2] <= q[2],
       {<<p[1], p[2], RunLength(a, b, p[1], p[2], ahi, bhi)>> :
          p \in {q \in (alo..ahi) \X (blo..bhi) :
                   Char(a, q[1]) = Char(b, q[2])}})

\* difflib.SequenceMatcher.get_matching_blocks: the sizes of the blocks,
\* summed
RECURSIVE MatchingChars(_, _, _, _, _, _)
MatchingChars(a, b, alo, ahi, blo, bhi) ==
    IF alo > ahi \/ blo > bhi THEN 0
    ELSE At(LAMBDA m :
              IF m[3] = 0 THEN 0
              ELSE m[3]
                   + MatchingChars(a, b, alo, m[1] - 1, blo, m[2] - 1)
                   + MatchingChars(a, b, m[1] + m[3], ahi, m[2] + m[3], bhi),
            find_longest_match(a, b, alo, ahi, blo, bhi))

\* difflib.SequenceMatcher(None, a, b).ratio(): 2.0 * M / T
SequenceMatcherRatio(a, b) ==
    <<2 * MatchingChars(a, b, 1, Len(a), 1, Len(b)), Len(a) + Len(b)>>

\* _find_best_symptom_match returning None, 0
NoMatch == [match |-> None, score |-> <<0, 1>>]

\* Healthcare_Assistant_System.py:216-243: one turn of the loop, from the
\* best match so far to the best match after known_symptom
MatchStep(user_symptom, known_symptom, best) ==
    LET Better(score, b) ==
          At(LAMBDA sc : IF Gt(sc, b.score)
                         THEN [match |-> known_symptom, score |-> sc]
                         ELSE b,
             score)
        user_tokens == Range(Split(user_symptom, "_"))
        known_tokens == Range(Split(known_symptom, "_"))
    IN  IF Contains(user_symptom, known_symptom)
        THEN Better(<<Len(user_symptom) * 95, Len(known_symptom) * 100>>, best)
        ELSE IF Contains(known_symptom, user_symptom)
        THEN Better(<<Len(known_symptom) * 95, Len(user_symptom) * 100>>, best)
        ELSE At(LAMBDA after_tokens :
                  Better(SequenceMatcherRatio(user_symptom, known_symptom),
                         after_tokens),
                At(LAMBDA overlap :
                     IF overlap > 0
                     THEN Better(<<overlap, Max(Cardinality(user_tokens),
                                                Cardinality(known_tokens))>>,
                                 best)
                     ELSE best,
                   Cardinality(user_tokens \cap known_tokens)))

\* Healthcare_Assistant_System.py:215: the loop over all_symptoms in the
\* order the set enumerates, from its i-th element on
RECURSIVE MatchLoop(_, _, _, _)
MatchLoop(user_symptom, known, i, best) ==
    IF i > Len(known) THEN best
    ELSE At(LAMBDA b : MatchLoop(user_symptom, known, i + 1, b),
            MatchStep(user_symptom, known[i], best))

\* Healthcare_Assistant_System.py:201-248: [match, score], with known the
\* elements of all_symptoms in the order the set enumerates
find_best_symptom_match(raw_symptom, threshold, known) ==
    At(LAMBDA user_symptom :
         IF user_symptom = None THEN NoMatch
         ELSE IF user_symptom \in Range(known)
         THEN [match |-> user_symptom, score |-> <<1, 1>>]
         ELSE At(LAMBDA best : IF Ge(best.score, threshold) THEN best
                               ELSE NoMatch,
                 MatchLoop(user_symptom, known, 1, NoMatch)),
       normalize_symptom(raw_symptom))

\* The default threshold of _find_best_symptom_match, 0.55
DefaultThreshold == <<55, 100>>

\* Weights are counted in millionths: the four parts of a symptom's weight
\* are held in thousandths and the coefficients of get_combined_weight are
\* thousandths too.
WeightUnit == 1000000

\* Feature_Engineering.py:151-163
get_combined_weight(symptom, symptom_weights) ==
    IF symptom \notin DOMAIN symptom_weights THEN WeightUnit
    ELSE LET weights == symptom_weights[symptom]
         IN  weights.base_severity * 300 + weights.idf * 300
             + weights.discriminative * 250 + weights.rarity * 10 * 150

\* The symptoms _find_best_symptom_match resolves, in the order given
Matches(symptoms, known) ==
    [i \in 1..Len(symptoms) |->
        find_best_symptom_match(symptoms[i], DefaultThreshold, known).match]

\* Sum of a sequence of numbers
RECURSIVE Sum(_, _)
Sum(seq, i) == IF i > Len(seq) THEN 0 ELSE seq[i] + Sum(seq, i + 1)

\* Healthcare_Assistant_System.py:499-516: severity_score, with the
\* artifact's feature_engineer present
calculate_severity(symptoms, md) ==
    At(LAMBDA matched :
         Sum([i \in 1..Len(symptoms) |->
                IF matched[i] # None
                THEN get_combined_weight(matched[i], md.symptom_weights)
                ELSE WeightUnit], 1),
       Matches(symptoms, md.all_symptoms))

\* Healthcare_Assistant_System.py:520-527
emergency_symptoms ==
    { "chest_pain", "difficulty_breathing", "severe_headache",
      "sudden_numbness", "confusion", "severe_bleeding",
      "unconsciousness", "heart_attack", "stroke", "seizure",
      "high_fever", "severe_abdominal_pain", "blurred_vision",
      "slurred_speech", "weakness", "paralysis", "shortness_of_breath",
      "fainting", "severe_chest_pain", "coughing_blood" }

\* Healthcare_Assistant_System.py:518-533
is_emergency(symptoms, severity_score) ==
    LET user_symptoms_clean ==
          {normalize_symptom(symptoms[i]) : i \in 1..Len(symptoms)}
        has_emergency == emergency_symptoms \cap user_symptoms_clean # {}
        high_severity == severity_score > 20 * WeightUnit
    IN  has_emergency \/ high_severity

\* Classifier probabilities are counted in parts of 1/ProbUnits.
ProbUnits == 4

\* Combined scores are counted in parts of 1/(100 * ProbUnits * ScoreScale);
\* ScoreScale is a common multiple of the set sizes the ratios divide by.
ScoreScale == 720720

\* A score that is not a number (0.0 / 0.0 on numpy floats).
NaN == "nan"

\* Healthcare_Assistant_System.py:469-486: the combined score of one
\* candidate
CombinedScore(prob, user_set, disease_symptoms) ==
    IF disease_symptoms # {} /\ user_set # {}
    THEN LET overlap == Cardinality(user_set \cap disease_symptoms)
             union == Cardinality(user_set \cup disease_symptoms)
             jaccard == (overlap * ScoreScale) \div union
             precision == (overlap * ScoreScale) \div Cardinality(user_set)
             f1 == IF overlap = 0 THEN 0
                   ELSE (2 * overlap * ScoreScale)
                        \div (Cardinality(user_set) + Cardinality(disease_symptoms))
         IN  prob * 50 * ScoreScale
             + ProbUnits * (jaccard * 15 + precision * 20 + f1 * 15)
    ELSE prob * 100 * ScoreScale

\* The candidates left in the order of their probabilities
SortDescending_left_out(seq) == seq

\* list.sort(key=lambda x: x[1], reverse=True): by decreasing score, equal
\* scores in the order they had
SortDescending(seq) ==
    LET Rank(i) == 1 + Cardinality({j \in 1..Len(seq) : seq[j].score > seq[i].score})
                     + Cardinality({j \in 1..(i - 1) : seq[j].score = seq[i].score})
    IN  [k \in 1..Len(seq) |-> seq[CHOOSE i \in 1..Len(seq) : Rank(i) = k]]

\* Healthcare_Assistant_System.py:493-495: the scores divided by the
\* largest, as fractions <<score, max_score>>
Normalize(seq) ==
    At(LAMBDA max_score :
         [k \in 1..Len(seq) |->
            [disease |-> seq[k].disease,
             score |-> IF max_score = 0 THEN NaN
                       ELSE IF seq[k].score > max_score THEN <<1, 1>>
                       ELSE <<seq[k].score, max_score>>]],
       IF seq = <<>> THEN 1
       ELSE CHOOSE m \in {seq[k].score : k \in 1..Len(seq)} :
               \A k \in 1..Len(seq) : seq[k].score <= m)

\* Healthcare_Assistant_System.py:461-497
rerank_predictions(user_symptoms, predictions, disease_symptom_map) ==
    At(LAMBDA user_set :
         At(LAMBDA reranked : Normalize(SortDescending(reranked)),
            [k \in 1..Len(predictions) |->
               [disease |-> predictions[k].disease,
                score |-> CombinedScore(
                            predictions[k].prob, user_set,
                            IF Lower(predictions[k].disease)
                                  \in DOMAIN disease_symptom_map
                            THEN disease_symptom_map[Lower(predictions[k].disease)]
                            ELSE {})]]),
       Range(user_symptoms))

\* predict_proba: the distributions over n classes in parts of 1/ProbUnits
Distributions(n) ==
    {p \in [1..n -> 0..ProbUnits] : Sum(p, 1) = ProbUnits}

\* Healthcare_Assistant_System.py:450-451: np.argsort(probabilities)
\* [-top_n:][::-1], the top_n classes by decreasing probability; classes of
\* equal probability come in an order the sort does not promise
TopIndices(probabilities) ==
    LET n == Len(probabilities)
        top_n == Min(5, n)
    IN  {idx \in [1..top_n -> 1..n] :
           /\ \A i, j \in 1..top_n : i < j =>
                 /\ idx[i] # idx[j]
                 /\ probabilities[idx[i]] >= probabilities[idx[j]]
           /\ \A c \in 1..n : (\A i \in 1..top_n : idx[i] # c) =>
                 probabilities[c] <= probabilities[idx[top_n]]}

\* Healthcare_Assistant_System.py:443-451: what the classifier can answer
\* for n classes: <<probabilities, top_n_idx>>
ClassifierOutputs(n) ==
    UNION {{<<p, idx>> : idx \in TopIndices(p)} : p \in Distributions(n)}

\* Healthcare_Assistant_System.py:452-457: list(zip(top_n_diseases,
\* top_n_probs)) for the classifier's answer out
TopPredictions(out, classes) ==
    [k \in 1..Len(out[2]) |->
       [disease |-> classes[out[2][k]], prob |-> out[1][out[2][k]]]]

\* Healthcare_Assistant_System.py:416-459: the results predict_disease can
\* return, one for each output of the classifier.  matched_symptoms and
\* reranked are the locals of those names at the return, predictions the
\* list handed to _rerank_predictions.
predict_disease(user_symptoms, md) ==
    At(LAMBDA matched_symptoms :
         {At(LAMBDA reranked :
               [disease |-> reranked[1].disease,
                confidence |-> reranked[1].score,
                top_3 |-> SubSeq(reranked, 1, Min(3, Len(reranked))),
                matched_symptoms |-> matched_symptoms,
                reranked |-> reranked,
                predictions |-> TopPredictions(out, md.classes)],
             rerank_predictions(matched_symptoms,
                                TopPredictions(out, md.classes),
                                md.disease_symptom_map))
            : out \in ClassifierOutputs(Len(md.classes))},
       At(LAMBDA matched :
            IF matched # <<>> THEN matched
            ELSE SelectSeq([i \in 1..Len(user_symptoms) |->
                               normalize_symptom(user_symptoms[i])], NotNone),
          SelectSeq(Matches(user_symptoms, md.all_symptoms), NotNone)))

\* Healthcare_Assistant_System.py:563-592: the assessments the call can
\* return, one for each output of the classifier.  resolved (the symptoms
\* lines 421-424 matched in the vocabulary) and reranked (what
\* _rerank_predictions returned) are kept beside the fields of the result.
get_comprehensive_assessment(symptoms, md) ==
    At(LAMBDA severity_score :
         At(LAMBDA emergency :
              {[predicted_disease |-> pr.disease,
                confidence |-> pr.confidence,
                top_3_predictions |-> pr.top_3,
                severity_score |-> severity_score,
                is_emergency |-> emergency,
                resolved |-> Range(pr.matched_symptoms)
                                \cap Range(md.all_symptoms),
                reranked |-> pr.reranked,
                matched_symptoms |-> pr.matched_symptoms,
                predictions |-> pr.predictions,
                precautions |->
                    IF Lower(pr.disease) \in DOMAIN md.precautions_map
                    THEN md.precautions_map[Lower(pr.disease)]
                    ELSE <<>>]
                 : pr \in predict_disease(symptoms, md)},
            is_emergency(symptoms, severity_score)),
       calculate_severity(symptoms, md))

-----------------------------------------------------------------------------
(***************************************************************************)
(* get_comprehensive_assessment on symptom lists put together from pieces, *)
(* for two artifacts and every answer of the classifier                    *)
(***************************************************************************)

\* Longest symptom list, in pieces.
MaxPieces == 2

\* Pieces of a symptom list, as app.py:207-211 or the console hands them on.
Pieces ==
    { <<"chest_pains">>,
      <<"chest_pain">>,
      <<"vomiting", "cough", "fatigue">>,
      <<"head-ache">> }

\* symptom_weights of the feature engineer, the four parts in thousandths.
SymptomWeights ==
    [s \in {"chest_pain", "cough", "fatigue", "headache", "high_fever",
            "vomiting"} |->
       CASE s = "chest_pain" ->
              [base_severity |-> 7000, idf |-> 3000, discriminative |-> 3000,
               rarity |-> 500]
         [] s = "cough" ->
              [base_severity |-> 6000, idf |-> 2800, discriminative |-> 2000,
               rarity |-> 200]
         [] s = "fatigue" ->
              [base_severity |-> 6000, idf |-> 2500, discriminative |-> 1500,
               rarity |-> 250]
         [] s = "headache" ->
              [base_severity |-> 3000, idf |-> 1400, discriminative |-> 1000,
               rarity |-> 100]
         [] s = "high_fever" ->
              [base_severity |-> 7000, idf |-> 2400, discriminative |-> 2000,
               rarity |-> 250]
         [] OTHER ->
              [base_severity |-> 7000, idf |-> 3000, discriminative |-> 2000,
               rarity |-> 200]]

\* disease_symptom_map of the first artifact.
DiseaseSymptoms ==
    [d \in {"common cold", "heart attack", "malaria"} |->
       CASE d = "common cold" -> {"cough", "fatigue", "headache"}
         [] d = "heart attack" -> {"chest_pain", "vomiting", "fatigue"}
         [] OTHER -> {"high_fever", "vomiting", "headache", "fatigue"}]

\* disease_symptom_map of the third artifact: a disease with a signature of
\* eight symptoms beside one with a signature of two.
WideSignatures ==
    [d \in {"common cold", "malaria"} |->
       CASE d = "common cold" -> {"cough", "fatigue"}
         [] OTHER -> {"chills", "cough", "fatigue", "high_fever", "nausea",
                      "sweating", "vomiting", "joint_pain"}]

\* precautions_map as Healthcare_Assistant_System.py:120-123 builds it from
\* the precautions file: a row per disease the file lists, with the cells of
\* its Precaution columns that are filled in.
PrecautionsMap ==
    [d \in {"common cold", "malaria", "migraine"} |->
       CASE d = "common cold" -> <<"drink vitamin c rich drinks", "take vapour">>
         [] d = "malaria" -> <<"avoid oily food", "keep mosquitos out">>
         [] OTHER -> <<>>]

\* Artifacts load_model reads (Healthcare_Assistant_System.py:631-646):
\* all_symptoms in an order the set may enumerate in, the classes of the
\* label encoder, disease_symptom_map (absent from the second artifact,
\* line 645), the symptom weights and precautions_map.
ModelData ==
    { [all_symptoms |-> <<"chest_pain", "cough", "fatigue", "headache",
                          "high_fever", "vomiting">>,
       classes |-> <<"Common Cold", "Heart attack", "Malaria", "Migraine">>,
       disease_symptom_map |-> DiseaseSymptoms,
       symptom_weights |-> SymptomWeights,
       precautions_map |-> PrecautionsMap],
      [all_symptoms |-> <<"vomiting", "high_fever", "headache", "fatigue",
                          "cough">>,
       classes |-> <<"Common Cold", "Heart attack", "Malaria", "Migraine">>,
       disease_symptom_map |-> [d \in {} |-> {}],
       symptom_weights |-> SymptomWeights,
       precautions_map |-> PrecautionsMap],
      [all_symptoms |-> <<"chills", "cough", "fatigue", "high_fever",
                          "nausea", "sweating", "vomiting", "joint_pain">>,
       classes |-> <<"Common Cold", "Malaria", "Migraine">>,
       disease_symptom_map |-> WideSignatures,
       symptom_weights |-> SymptomWeights,
       precautions_map |-> PrecautionsMap] }

AssessInit ==
    /\ model_data \in ModelData
    /\ symptom_list = <<>>
    /\ pieces = 0
    /\ as_pc = "asking"
    /\ assessment = NoAssessment
    /\ FlaskOff
    /\ ExtractOff
    /\ NormalizeOff
    /\ TrainOff
    /\ ServiceOff
    /\ MatchOff
    /\ SeverityOff
    /\ AugmentOff
    /\ MemCacheOff

\* The user names more symptoms.
Mention(piece) ==
    /\ as_pc = "asking"
    /\ pieces < MaxPieces
    /\ symptom_list' = symptom_list \o piece
    /\ pieces' = pieces + 1
    /\ UNCHANGED <<model_data, as_pc, assessment>>
    /\ UNCHANGED outside_assess

\* assistant.get_comprehensive_assessment(processed_symptoms), app.py:237,
\* reached with a non-empty list only (app.py:223)
Assess ==
    /\ as_pc = "asking"
    /\ symptom_list # <<>>
    /\ assessment' \in get_comprehensive_assessment(symptom_list, model_data)
    /\ as_pc' = "done"
    /\ UNCHANGED <<model_data, symptom_list, pieces>>
    /\ UNCHANGED outside_assess

AssessNext ==
    \/ \E piece \in Pieces : Mention(piece)
    \/ Assess

SpecAssess == AssessInit /\ [][AssessNext]_vars

-----------------------------------------------------------------------------
(***************************************************************************)
(* _normalize_symptom applied to a string and then to its own results      *)
(***************************************************************************)

\* Longest string handed to _normalize_symptom, in characters.
MaxSymptomLen == 3

\* Characters of those strings: a lower-case and an upper-case letter, a
\* digit, the blank and the hyphen (replaced by line 197), the underscore
\* and a character line 198 drops.
SymptomAlphabet == {"a", "B", "7", " ", "-", "_", "!"}

RECURSIVE Texts(_)
\* The strings of at most n characters of SymptomAlphabet.
Texts(n) ==
    IF n = 0 THEN {""}
    ELSE Texts(n - 1) \cup {t \o c : t \in Texts(n - 1), c \in SymptomAlphabet}

\* Calls of _normalize_symptom on the result of the call before.
MaxCalls == 2

NormalizeInit ==
    /\ ns_input \in Texts(MaxSymptomLen)
    /\ ns_result = <<>>
    /\ ns_pc = "calling"
    /\ FlaskOff
    /\ ExtractOff
    /\ AssessOff
    /\ TrainOff
    /\ ServiceOff
    /\ MatchOff
    /\ SeverityOff
    /\ AugmentOff
    /\ MemCacheOff

\* self._normalize_symptom(val), Healthcare_Assistant_System.py:273
NormalizeInput ==
    /\ ns_pc = "calling"
    /\ ns_result = <<>>
    /\ ns_result' = <<normalize_symptom(ns_input)>>
    /\ UNCHANGED <<ns_input, ns_pc>>
    /\ UNCHANGED outside_normalize

\* _normalize_symptom handed what it returned
NormalizeResult ==
    /\ ns_pc = "calling"
    /\ ns_result # <<>>
    /\ Len(ns_result) < MaxCalls
    /\ ns_result' =
           Append(ns_result, normalize_symptom(ns_result[Len(ns_result)]))
    /\ UNCHANGED <<ns_input, ns_pc>>
    /\ UNCHANGED outside_normalize

NormalizeNext ==
    \/ NormalizeInput
    \/ NormalizeResult

SpecNormalize == NormalizeInit /\ [][NormalizeNext]_vars

\* C17: _normalize_symptom is idempotent: handed its own result, None
\* included, it returns that result.
C17_NormalizeIdempotent ==
    \A k \in 2..Len(ns_result) : ns_result[k] = ns_result[k - 1]

\* A string the first call changed, and the second call made.
C17_Witness ==
    /\ Len(ns_result) >= 2
    /\ ns_result[1] \notin {None, ns_input}

-----------------------------------------------------------------------------
(***************************************************************************)
(* Properties of get_comprehensive_assessment                              *)
(***************************************************************************)

\* C9: get_comprehensive_assessment reports is_emergency exactly when a
\* symptom of the resolved (vocabulary-matched) set is an emergency keyword
\* or the severity score is greater than 20.
C9_EmergencyFromResolvedSet ==
    as_pc = "done" =>
        (assessment.is_emergency <=>
            \/ assessment.resolved \cap emergency_symptoms # {}
            \/ assessment.severity_score > 20 * WeightUnit)

\* C10: _rerank_predictions returns the candidates by non-increasing score,
\* the first score 1.0 and every score in [0, 1]; predict_disease returns
\* the first candidate as the prediction and the first 3 at most as the
\* alternatives.
C10_RerankedOrderAndTop ==
    as_pc = "done" =>
        LET r == assessment.reranked
        IN  /\ Len(r) > 0
            /\ \A k \in 1..Len(r) :
                  /\ r[k].score # NaN
                  /\ r[k].score[1] >= 0
                  /\ r[k].score[1] <= r[k].score[2]
            /\ \A k \in 1..(Len(r) - 1) :
                  /\ r[k].score[2] = r[k + 1].score[2]
                  /\ r[k].score[1] >= r[k + 1].score[1]
            /\ r[1].score[1] = r[1].score[2]
            /\ assessment.predicted_disease = r[1].disease
            /\ assessment.confidence = r[1].score
            /\ Len(assessment.top_3_predictions) <= 3
            /\ assessment.top_3_predictions
                  = SubSeq(r, 1, Len(assessment.top_3_predictions))
            /\ Len(assessment.top_3_predictions) = Min(3, Len(r))

\* An assessment of four candidates cut to three alternatives, the second
\* of them with a score strictly between 0 and 1.
C10_Witness ==
    /\ as_pc = "done"
    /\ Len(assessment.reranked) = 4
    /\ Len(assessment.top_3_predictions) = 3
    /\ assessment.reranked[2].score[1] > 0
    /\ assessment.reranked[2].score[1] < assessment.reranked[2].score[2]
    /\ assessment.resolved # {}
    /\ assessment.predicted_disease = "Heart attack"

\* disease_symptom_map.get(disease.lower(), set()) of the loaded artifact
Signature(disease) ==
    IF Lower(disease) \in DOMAIN model_data.disease_symptom_map
    THEN model_data.disease_symptom_map[Lower(disease)]
    ELSE {}

\* The reranked score of a candidate, as a numerator over the common
\* denominator max_score.
RerankedScore(disease) ==
    LET r == assessment.reranked
    IN  r[CHOOSE k \in 1..Len(r) : r[k].disease = disease].score[1]

\* C11: in _rerank_predictions a candidate whose signature is a superset of
\* the input symptom set and whose probability is at least that of a
\* candidate whose signature overlaps the input only partially is ranked at
\* or above that candidate.
C11_SupersetRanksAbovePartial ==
    as_pc = "done" =>
        LET user_set == Range(assessment.matched_symptoms)
            p == assessment.predictions
        IN  \A a, b \in 1..Len(p) :
               (/\ user_set # {}
                /\ user_set \subseteq Signature(p[a].disease)
                /\ Signature(p[b].disease) \cap user_set # {}
                /\ ~(user_set \subseteq Signature(p[b].disease))
                /\ p[a].prob >= p[b].prob)
                   => RerankedScore(p[a].disease) >= RerankedScore(p[b].disease)

\* C12: the scores predict_disease returns to its caller form a probability
\* distribution: each is non-negative and they sum to 1.
C12_ReturnedScoresAreDistribution ==
    as_pc = "done" =>
        LET t == assessment.top_3_predictions
        IN  /\ \A k \in 1..Len(t) : t[k].score # NaN /\ t[k].score[1] >= 0
            /\ \A k \in 1..Len(t) : t[k].score[2] = t[1].score[2]
            /\ Sum([k \in 1..Len(t) |-> t[k].score[1]], 1) = t[1].score[2]

\* C16: the precautions list of every assessment is non-empty, a generic list
\* standing in when the precautions table has no entry for the disease.
C16_PrecautionsNeverEmpty ==
    as_pc = "done" => assessment.precautions # <<>>

\* C23: the combined score _rerank_predictions gives a candidate is
\* 0.5 prob + 0.15 jaccard + 0.2 precision + 0.15 f1, a ratio with a zero
\* denominator counting 0, for every candidate: also for a disease that has
\* no stored signature.  The scores are in the units of CombinedScore.
C23_CombinedScoreFormula ==
    as_pc = "done" =>
        LET user_set == Range(assessment.matched_symptoms)
            p == assessment.predictions
            Ratio(n, den) == IF den = 0 THEN 0 ELSE (n * ScoreScale) \div den
        IN  \A k \in 1..Len(p) :
               LET overlap == Cardinality(user_set \cap Signature(p[k].disease))
                   given == Cardinality(user_set)
                   stored == Cardinality(Signature(p[k].disease))
                   jaccard == Ratio(overlap, given + stored - overlap)
                   precision == Ratio(overlap, given)
                   f1 == Ratio(2 * overlap, given + stored)
               IN  RerankedScore(p[k].disease)
                     = p[k].prob * 50 * ScoreScale
                         + ProbUnits * (jaccard * 15 + precision * 20 + f1 * 15)

-----------------------------------------------------------------------------
(***************************************************************************)
(* Training on the rows of diseases_symptoms_cleaned.csv:                  *)
(* HealthcareAssistant.prepare_training_data with the co-occurrence table  *)
(* of its SymptomFeatureEngineer, and fit of the two AdvancedFeatureEngineer *)
(* classes of app/services/ml.  Floating-point results of training (the    *)
(* severity weights of Feature_Engineering.py, the augmented samples and   *)
(* the scaler) are left out; tables of counts and sets are exact.          *)
(***************************************************************************)

\* A cell of the data file: a number, a string or an empty cell (NaN).
CellNum(n) == [kind |-> "num", num |-> n, str |-> ""]
CellStr(s) == [kind |-> "str", num |-> 0, str |-> s]
CellNaN == [kind |-> "nan", num |-> 0, str |-> ""]

\* Characters of the model's texts in the order of their code points.
CodePoints == " !-" \o Digits \o UpperCase \o "_" \o LowerCase

Ord(c) == CHOOSE i \in 1..Len(CodePoints) : Char(CodePoints, i) = c

\* a < b for Python strings
StrLess(a, b) ==
    \E k \in 1..(Min(Len(a), Len(b)) + 1) :
        /\ SubSeq(a, 1, k - 1) = SubSeq(b, 1, k - 1)
        /\ \/ k > Len(a) /\ k <= Len(b)
           \/ /\ k <= Len(a)
              /\ k <= Len(b)
              /\ Ord(Char(a, k)) < Ord(Char(b, k))

\* sorted(S) for a set of strings
SortedStrings(S) ==
    At(LAMBDA T : [k \in 1..Cardinality(T) |->
                     CHOOSE x \in T :
                        Cardinality({y \in T : StrLess(y, x)}) = k - 1],
       S)

\* map[key].update(elems), the key created where the dict lacks it
AddTo(map, key, elems) ==
    [k \in DOMAIN map \cup {key} |->
       IF k = key
       THEN (IF key \in DOMAIN map THEN map[key] ELSE {}) \cup elems
       ELSE map[k]]

\* Healthcare_Assistant_System.py:269-275: the symptom a cell stands for
RowSymptom(val, col) ==
    IF val.kind = "str" /\ Strip(val.str) # ""
    THEN normalize_symptom(val.str)
    ELSE IF val.kind = "num" /\ val.num = 1
    THEN normalize_symptom(col)
    ELSE None

\* Healthcare_Assistant_System.py:268-283: the columns of one row from the
\* i-th on
RECURSIVE ColumnLoop(_, _, _, _, _)
ColumnLoop(row, disease, cols, i, st) ==
    IF i > Len(cols) THEN st
    ELSE At(LAMBDA symptom :
              At(LAMBDA next : ColumnLoop(row, disease, cols, i + 1, next),
                 IF symptom # None
                 THEN [st EXCEPT
                         !.all_symptoms = @ \cup {symptom},
                         !.symptoms_for_disease = @ \cup {symptom},
                         !.symptom_disease_map = AddTo(@, symptom, {disease})]
                 ELSE st),
            RowSymptom(row.cells[i], cols[i]))

\* One row with line 288 filing the symptoms under the label as the file
\* writes it
RowStep_label_as_written(row, cols, st) ==
    IF row.disease = NaN THEN st
    ELSE At(LAMBDA disease :
              At(LAMBDA after :
                   IF after.symptoms_for_disease # {}
                   THEN [after EXCEPT
                           !.disease_symptom_map =
                               AddTo(@, row.disease,
                                     after.symptoms_for_disease)]
                   ELSE after,
                 ColumnLoop(row, disease, cols, 1,
                            [st EXCEPT !.symptoms_for_disease = {}])),
            Strip(Lower(row.disease)))

\* Healthcare_Assistant_System.py:262-288: one row
RowStep(row, cols, st) ==
    IF row.disease = NaN THEN st
    ELSE At(LAMBDA disease :
              At(LAMBDA after :
                   IF after.symptoms_for_disease # {}
                   THEN [after EXCEPT
                           !.disease_symptom_map =
                               AddTo(@, disease, after.symptoms_for_disease)]
                   ELSE after,
                 ColumnLoop(row, disease, cols, 1,
                            [st EXCEPT !.symptoms_for_disease = {}])),
            Strip(Lower(row.disease)))

\* Healthcare_Assistant_System.py:261: the rows from the i-th on
RECURSIVE RowLoop(_, _, _, _)
RowLoop(df, cols, i, st) ==
    IF i > Len(df) THEN st
    ELSE At(LAMBDA next : RowLoop(df, cols, i + 1, next),
            RowStep(df[i], cols, st))

\* Feature_Engineering.py:121-131: the symptom a cell adds to symptoms_in_row,
\* "" where it adds none
CoocSymptom(val, col) ==
    IF val.kind = "nan" THEN ""
    ELSE IF val.kind = "str" THEN Replace(Strip(Lower(val.str)), " ", "_")
    ELSE IF val.num = 1 THEN Replace(Lower(col), " ", "_")
    ELSE ""

NotEmpty(s) == s # ""

\* Feature_Engineering.py:119-131
symptoms_in_row(row, cols) ==
    SelectSeq([i \in 1..Len(cols) |-> CoocSymptom(row.cells[i], cols[i])],
              NotEmpty)

\* itertools.combinations(list, 2); also the pairs of list[i], list[i+1:]
combinations(list) ==
    At(LAMBDA l :
         ConcatSeq(LAMBDA i : [j \in 1..(Len(l) - i) |-> <<l[i], l[i + j]>>],
                   1, Len(l) - 1),
       list)

\* table[a][b] += 1, with the entries created that the table lacks
\* (Feature_Engineering.py:135-139; a defaultdict of defaultdicts does the
\* same)
Increment(table, a, b) ==
    [k \in DOMAIN table \cup {a} |->
       IF k = a
       THEN At(LAMBDA inner :
                 [x \in DOMAIN inner \cup {b} |->
                    IF x = b
                    THEN (IF b \in DOMAIN inner THEN inner[b] ELSE 0) + 1
                    ELSE inner[x]],
               IF a \in DOMAIN table THEN table[a] ELSE NoMap)
       ELSE table[k]]

\* The update of one pair with lines 141-146 left out
PairStep_one_direction(table, pair) == Increment(table, pair[1], pair[2])

\* Feature_Engineering.py:134-146, feature_engine.py:115-116,
\* feature_engineer.py:95-96
PairStep(table, pair) ==
    At(LAMBDA t : Increment(t, pair[2], pair[1]),
       Increment(table, pair[1], pair[2]))

\* The loop over the pairs of one row, from the i-th on
RECURSIVE PairLoop(_, _, _)
PairLoop(table, pairs, i) ==
    IF i > Len(pairs) THEN table
    ELSE At(LAMBDA t : PairLoop(t, pairs, i + 1), PairStep(table, pairs[i]))

\* Feature_Engineering.py:118: the rows from the i-th on
RECURSIVE CoocRowLoop(_, _, _, _)
CoocRowLoop(df, cols, i, table) ==
    IF i > Len(df) THEN table
    ELSE At(LAMBDA t : CoocRowLoop(df, cols, i + 1, t),
            PairLoop(table, combinations(symptoms_in_row(df[i], cols)), 1))

\* Feature_Engineering.py:114-149
calculate_cooccurrence(df, symptom_cols, table) ==
    CoocRowLoop(df, symptom_cols, 1, table)

\* Feature_Engineering.py:44-80: total_diseases, the number of labels the
\* disease column holds (nunique leaves NaN out), and symptom_doc_freq, which
\* line 66 raises once for every row and symptom of the row (seen_symptoms
\* starts empty at every row, line 50)
calculate_symptom_weights(df, symptom_cols) ==
    LET seen_symptoms(i) == Range(symptoms_in_row(df[i], symptom_cols))
    IN  [total_diseases |->
             Cardinality({df[i].disease : i \in 1..Len(df)} \ {NaN}),
         symptom_doc_freq |->
             [symptom \in UNION {seen_symptoms(i) : i \in 1..Len(df)} |->
                Cardinality({i \in 1..Len(df) : symptom \in seen_symptoms(i)})]]

\* Healthcare_Assistant_System.py:250-301: the maps and the vocabulary of
\* the assistant after the call, and the co-occurrence table and the counts
\* of the engineer engineer_features constructs
prepare_training_data(df, symptom_cols, self) ==
    At(LAMBDA st :
         [prepared |-> TRUE,
          total_diseases |->
              calculate_symptom_weights(df, symptom_cols).total_diseases,
          symptom_doc_freq |->
              calculate_symptom_weights(df, symptom_cols).symptom_doc_freq,
          all_symptoms |-> st.all_symptoms,
          all_symptoms_list |-> SortedStrings(st.all_symptoms),
          symptom_disease_map |-> st.symptom_disease_map,
          disease_symptom_map |-> st.disease_symptom_map,
          symptom_cooccurrence |->
              calculate_cooccurrence(df, symptom_cols, NoMap)],
       RowLoop(df, symptom_cols, 1,
               [all_symptoms |-> self.all_symptoms,
                symptoms_for_disease |-> {},
                symptom_disease_map |-> self.symptom_disease_map,
                disease_symptom_map |-> self.disease_symptom_map]))

\* The frame X the trainer hands to fit, scripts/train_model.py:80-82: the
\* columns of the file but the disease column.  Values are in tenths, a
\* flag of 1 being 10.
Frame(df, cols) ==
    [columns |-> cols,
     rows |-> [i \in 1..Len(df) |->
                 [j \in 1..Len(cols) |-> 10 * df[i].cells[j].num]]]

\* The labels y, scripts/train_model.py:92
Labels(df) ==
    [i \in 1..Len(df) |-> Replace(Lower(Strip(df[i].disease)), "_", " ")]

\* [col for col in columns if test(row[col])], as indices
SelectColumns(values, Test(_)) ==
    SelectSeq([j \in 1..Len(values) |-> j], LAMBDA j : Test(values[j]))

\* feature_engine.py:110 and 158: the columns a row has a positive value in
ActiveColumns(columns, values) ==
    At(LAMBDA idx : [k \in 1..Len(idx) |-> columns[idx[k]]],
       SelectColumns(values, LAMBDA v : v > 0))

\* feature_engineer.py:90: the columns a row has the value 1 in
FlaggedColumns(columns, values) ==
    At(LAMBDA idx : [k \in 1..Len(idx) |-> columns[idx[k]]],
       SelectColumns(values, LAMBDA v : v = 10))

Abs(x) == IF x < 0 THEN 0 - x ELSE x

\* feature_engine.py:84-104: the weight of the j-th column as an exact
\* fraction.  With n the sum of the column, k the diseases that have the
\* symptom, T the diseases and L the rows,
\* 0.6 * (1 - k/T) + 0.4 * (1 - |n/L - 0.3|) is the fraction below.
fe_symptom_weight(X, y, j) ==
    At(LAMBDA n :
         IF n = 0 THEN <<0, 1>>
         ELSE At(LAMBDA k :
                   At(LAMBDA T :
                        <<60 * Len(y) * (T - k)
                            + 4 * T * (10 * Len(y)
                                         - Abs(10 * n - 3 * Len(y))),
                          100 * T * Len(y)>>,
                      Cardinality(Range(y))),
                 Cardinality({y[i] : i \in {r \in 1..Len(y) :
                                              X.rows[r][j] > 0}})),
       Cardinality({i \in 1..Len(y) : X.rows[i][j] > 0}))

\* feature_engine.py:84-104
fe_calculate_symptom_weights(X, y) ==
    [s \in Range(X.columns) |->
       fe_symptom_weight(X, y, CHOOSE j \in 1..Len(X.columns) :
                                  X.columns[j] = s)]

\* feature_engine.py:109: the rows from the i-th on
RECURSIVE FeCoocLoop(_, _, _)
FeCoocLoop(X, i, table) ==
    IF i > Len(X.rows) THEN table
    ELSE At(LAMBDA t : FeCoocLoop(X, i + 1, t),
            PairLoop(table,
                     combinations(ActiveColumns(X.columns, X.rows[i])), 1))

\* feature_engine.py:106-116
fe_calculate_cooccurrence(X, table) == FeCoocLoop(X, 1, table)

\* feature_engine.py:118-128: log((total_samples + 1) / (doc_freq + 1)) + 1
\* is kept as the pair of the two numbers the logarithm is taken of, and 1.0
\* as <<1, 1>>.
fe_calculate_idf(X) ==
    [s \in Range(X.columns) |->
       At(LAMBDA doc_freq :
            IF doc_freq > 0 THEN <<Len(X.rows) + 1, doc_freq + 1>>
            ELSE <<1, 1>>,
          Cardinality({i \in 1..Len(X.rows) :
                         X.rows[i][CHOOSE j \in 1..Len(X.columns) :
                                      X.columns[j] = s] > 0}))]

\* Sum of a sequence of numbers.
Total(values) == Sum(values, 1)

\* feature_engine.py:56-57: a row of X_new, with total_symptoms and
\* symptom_diversity behind the columns of X
WithCounts(values) ==
    At(LAMBDA total :
         values \o <<total,
                     10 * Cardinality({j \in 1..Len(values) : values[j] > 0}
                                        \cup (IF total > 0 THEN {0} ELSE {}))>>,
       Total(values))

\* feature_engine.py:157-167: the keys line 166 looks up in the outer table,
\* a defaultdict: sym1 for every active column that has an active column
\* behind it
LookedUp(columns, rows) ==
    UNION { At(LAMBDA active : {active[i] : i \in 1..(Len(active) - 1)},
               ActiveColumns(columns, rows[r]))
            : r \in 1..Len(rows) }

\* d[key] for each of the keys on a defaultdict of defaultdicts: a key the
\* table lacks is inserted with an empty inner table
Touch(table, keys) ==
    [k \in DOMAIN table \cup keys |->
       IF k \in DOMAIN table THEN table[k] ELSE NoMap]

\* sorted(weights.items(), key=weight, reverse=True), feature_engine.py:180:
\* the keys by descending weight, keys of equal weight in the order of
\* insertion, which is the order of the columns at fit
ByWeight(order, weights) ==
    At(LAMBDA keys :
         [k \in 1..Len(keys) |->
            keys[CHOOSE i \in 1..Len(keys) :
                   Cardinality(
                     {j \in 1..Len(keys) :
                        \/ Gt(weights[keys[j]], weights[keys[i]])
                        \/ /\ ~Gt(weights[keys[i]], weights[keys[j]])
                           /\ j < i}) = k - 1]],
       SelectSeq(order, LAMBDA s : s \in DOMAIN weights))

\* feature_engine.py:176-194: the names of the interaction columns
fe_interaction_columns(self, columns) ==
    At(LAMBDA top :
         At(LAMBDA names :
              [k \in 1..Len(names) |->
                 names[k][1] \o "_x_" \o names[k][2]],
            combinations(SelectSeq(top, LAMBDA s : s \in Range(columns)))),
       At(LAMBDA sorted : SubSeq(sorted, 1, Min(10, Len(sorted))),
          ByWeight(self.symptom_columns, self.symptom_weights)))

\* "name" + suffix for each column
Suffixed(columns, suffix) ==
    [k \in 1..Len(columns) |-> columns[k] \o suffix]

\* feature_engine.py:47-77: the engineer after the call and the columns of
\* the frame it returns.  The values of the frame, floating-point products,
\* are left out.
fe_transform(self, X) ==
    At(LAMBDA X_new :
         [engineer |->
            [self EXCEPT !.symptom_cooccurrence =
                            Touch(@, LookedUp(X_new.columns, X_new.rows))],
          columns |->
            X_new.columns
              \o Suffixed(X.columns, "_weighted")
              \o <<"cooccurrence_strength">>
              \o Suffixed(X_new.columns, "_idf")
              \o fe_interaction_columns(self, X_new.columns)],
       [columns |-> X.columns \o <<"total_symptoms", "symptom_diversity">>,
        rows |-> [r \in 1..Len(X.rows) |-> WithCounts(X.rows[r])]])

\* old.update(new) for dicts
Updated(old, new) ==
    [k \in DOMAIN old \cup DOMAIN new |->
       IF k \in DOMAIN new THEN new[k] ELSE old[k]]

\* feature_engine.py:15-21
fe_init ==
    [class |-> "feature_engine", symptom_columns |-> <<>>,
     symptom_weights |-> NoMap, symptom_cooccurrence |-> NoMap,
     symptom_idf |-> NoMap, feature_names |-> <<>>]

\* feature_engine.py:23-45; the scaler is left out
fe_fit(self, X, y) ==
    At(LAMBDA t : [t.engineer EXCEPT !.feature_names = t.columns],
       fe_transform(
           [self EXCEPT
              !.symptom_columns = X.columns,
              !.symptom_weights =
                  Updated(@, fe_calculate_symptom_weights(X, y)),
              !.symptom_cooccurrence = fe_calculate_cooccurrence(X, @),
              !.symptom_idf = Updated(@, fe_calculate_idf(X))],
           X))

\* feature_engine.py:79-82: the engineer after the call
fe_fit_transform(self, X, y) ==
    At(LAMBDA fitted : fe_transform(fitted, X).engineer, fe_fit(self, X, y))

\* feature_engineer.py:15-22; feature_names is set by fit_transform only.
\* The severity weights and the disease frequencies, floating-point numbers
\* transform and the co-occurrence table do not depend on, are left out.
fr_init ==
    [class |-> "feature_engineer", symptom_columns |-> <<>>,
     symptom_cooccurrence |-> NoMap, symptom_idf |-> NoMap,
     interaction_pairs |-> <<>>, feature_names |-> <<>>]

\* feature_engineer.py:57-67: log((n_diseases + 1) / (n_with + 1)) + 1, kept
\* as the pair of the two numbers the logarithm is taken of
fr_calculate_symptom_idf(X, y) ==
    [s \in Range(X.columns) |->
       <<Cardinality(Range(y)) + 1,
         Cardinality({y[i] : i \in {r \in 1..Len(y) :
                         X.rows[r][CHOOSE j \in 1..Len(X.columns) :
                                      X.columns[j] = s] > 0}}) + 1>>]

\* feature_engineer.py:89: the rows from the i-th on
RECURSIVE FrCoocLoop(_, _, _, _)
FrCoocLoop(X, symptom_columns, i, table) ==
    IF i > Len(X.rows) THEN table
    ELSE At(LAMBDA t : FrCoocLoop(X, symptom_columns, i + 1, t),
            PairLoop(table,
                     combinations(FlaggedColumns(symptom_columns, X.rows[i])),
                     1))

\* feature_engineer.py:87-96
build_cooccurrence_matrix(X, symptom_columns, table) ==
    FrCoocLoop(X, symptom_columns, 1, table)

\* feature_engineer.py:111-129: the pairs that get a score: sym1 < sym2 with
\* a co-occurrence count above 5 (the product of their columns then has a
\* positive sum)
ScoredPairs(symptom_columns, table) ==
    {pair \in Range(symptom_columns) \X Range(symptom_columns) :
        /\ StrLess(pair[1], pair[2])
        /\ pair[1] \in DOMAIN table
        /\ pair[2] \in DOMAIN table[pair[1]]
        /\ table[pair[1]][pair[2]] > 5}

\* The orders a set can be listed in.
Orders(S) ==
    {f \in [1..Cardinality(S) -> S] :
        \A i, j \in 1..Cardinality(S) : f[i] = f[j] => i = j}

\* feature_engineer.py:106-134: the engineers the call can leave.  Line 117
\* looks sym1 up in the outer table, a defaultdict, for every pair
\* sym1 < sym2.  The order of the pairs is that of their scores, a
\* co-occurrence count times a variance across diseases, which is not
\* computed here: every order is allowed for.
identify_interaction_pairs(self) ==
    At(LAMBDA table :
         {[self EXCEPT !.symptom_cooccurrence = table,
                       !.interaction_pairs =
                           SubSeq(order, 1, Min(50, Len(order)))]
            : order \in Orders(ScoredPairs(self.symptom_columns, table))},
       Touch(self.symptom_cooccurrence,
             {s \in Range(self.symptom_columns) :
                \E s2 \in Range(self.symptom_columns) : StrLess(s, s2)}))

\* feature_engineer.py:24-55: the engineers fit can leave
fr_fit(self, X, y) ==
    identify_interaction_pairs(
        [self EXCEPT
           !.symptom_columns = X.columns,
           !.symptom_idf = Updated(@, fr_calculate_symptom_idf(X, y)),
           !.symptom_cooccurrence =
               build_cooccurrence_matrix(X, X.columns, @)])

\* df[name] = ... on a frame: a new column goes behind the others
WithColumn(columns, name) ==
    IF name \in Range(columns) THEN columns ELSE Append(columns, name)

\* feature_engineer.py:166-169: the interaction columns from the i-th pair on
RECURSIVE InteractionLoop(_, _, _)
InteractionLoop(pairs, i, columns) ==
    IF i > Len(pairs) THEN columns
    ELSE At(LAMBDA next : InteractionLoop(pairs, i + 1, next),
            IF pairs[i][1] \in Range(columns) /\ pairs[i][2] \in Range(columns)
            THEN WithColumn(columns, pairs[i][1] \o "_" \o pairs[i][2]
                                       \o "_interaction")
            ELSE columns)

\* feature_engineer.py:136-195: the columns of the frame transform returns.
\* No statement of it writes to the engineer, and the row count it tests at
\* line 188 is never changed by the column assignments before it.
fr_transform(self, X) ==
    At(LAMBDA with_pairs :
         IF Len(self.symptom_columns) > 0
         THEN WithColumn(WithColumn(WithColumn(WithColumn(with_pairs,
                  "symptom_count"), "avg_severity"), "max_severity"),
                  "symptom_std")
         ELSE with_pairs,
       InteractionLoop(self.interaction_pairs, 1, X.columns))

\* feature_engineer.py:220-251: the engineers the call can leave
fr_fit_transform(self, X, y) ==
    {[fitted EXCEPT !.feature_names = fr_transform(fitted, X)]
       : fitted \in fr_fit(self, X, y)}

-----------------------------------------------------------------------------
(***************************************************************************)
(* Training runs on data files of a few rows                               *)
(***************************************************************************)

\* Most rows of a data file.
MaxRows == 2

\* The columns of the data file but the disease column
\* (Healthcare_Assistant_System.py:255-256, scripts/train_model.py:82).
SymptomColumns == <<"fever", "skin rash", "cough">>

Flags(a, b, c) == <<CellNum(a), CellNum(b), CellNum(c)>>

\* Rows of the file: flags under the symptom columns, with the label of a
\* disease written in several ways or missing, and rows that name their
\* symptoms in the cells, some twice, some in a form normalisation changes
\* or drops.
Rows ==
    { [disease |-> "Flu", cells |-> Flags(1, 0, 1)],
      [disease |-> "Flu", cells |-> Flags(1, 1, 1)],
      [disease |-> "Measles", cells |-> Flags(1, 1, 0)],
      [disease |-> "Measles", cells |-> Flags(0, 1, 0)],
      [disease |-> " flu", cells |-> Flags(0, 0, 1)],
      [disease |-> "Measles", cells |-> Flags(0, 0, 0)],
      [disease |-> "common_cold", cells |-> Flags(0, 1, 1)],
      [disease |-> NaN, cells |-> Flags(1, 1, 1)],
      [disease |-> "Cold",
       cells |-> <<CellStr("Cough"), CellStr("high fever"), CellNaN>>],
      [disease |-> "Cold",
       cells |-> <<CellStr("cough"), CellStr("Cough "), CellStr("skin-rash")>>],
      [disease |-> "Flu",
       cells |-> <<CellStr(" "), CellStr("!"), CellNum(0)>>] }

\* A file of six equal rows: the least that gives a pair of symptoms a
\* co-occurrence count above 5 (feature_engineer.py:119).
SixRows == [i \in 1..6 |-> [disease |-> "Flu", cells |-> Flags(1, 1, 0)]]

RECURSIVE Files(_)
\* The files of at most n rows.
Files(n) ==
    IF n = 0 THEN {<<>>}
    ELSE Files(n - 1) \cup {Append(f, row) : f \in Files(n - 1), row \in Rows}

\* The file has a row, a label in every row and numbers in every cell: the
\* files fit of app/services/ml runs to its end on (a string cell makes
\* feature_engine.py:88 raise).
Numeric(df) ==
    /\ df # <<>>
    /\ \A i \in 1..Len(df) :
          /\ df[i].disease # NaN
          /\ \A j \in 1..Len(df[i].cells) : df[i].cells[j].kind = "num"

TrainInit ==
    /\ df_main \in Files(MaxRows) \cup {SixRows}
    /\ training = Untrained
    /\ fe_engineer = NoEngineer
    /\ fr_engineer = NoEngineer
    /\ transformed = NotTransformed
    /\ tr_pc = "loaded"
    /\ FlaskOff
    /\ ExtractOff
    /\ AssessOff
    /\ NormalizeOff
    /\ ServiceOff
    /\ MatchOff
    /\ SeverityOff
    /\ AugmentOff
    /\ MemCacheOff

\* assistant.prepare_training_data(), Healthcare_Assistant_System.py:250
PrepareTrainingData ==
    /\ tr_pc = "loaded"
    /\ ~training.prepared
    /\ training' = prepare_training_data(df_main, SymptomColumns, training)
    /\ UNCHANGED <<df_main, fe_engineer, fr_engineer, transformed, tr_pc>>
    /\ UNCHANGED outside_train

\* AdvancedFeatureEngineer().fit_transform(X_train, y_train),
\* scripts/train_model.py:127-128
FitFeatureEngine ==
    /\ tr_pc = "loaded"
    /\ fe_engineer = NoEngineer
    /\ Numeric(df_main)
    /\ fe_engineer' = fe_fit_transform(fe_init, Frame(df_main, SymptomColumns),
                                       Labels(df_main))
    /\ UNCHANGED <<df_main, training, fr_engineer, transformed, tr_pc>>
    /\ UNCHANGED outside_train

\* fit_transform of the AdvancedFeatureEngineer of feature_engineer.py
FitFeatureEngineer ==
    /\ tr_pc = "loaded"
    /\ fr_engineer = NoEngineer
    /\ Numeric(df_main)
    /\ fr_engineer' \in fr_fit_transform(fr_init,
                                         Frame(df_main, SymptomColumns),
                                         Labels(df_main))
    /\ UNCHANGED <<df_main, training, fe_engineer, transformed, tr_pc>>
    /\ UNCHANGED outside_train

\* Frames of one row handed to transform: the columns of the fit, the
\* same with one missing, with one more, in another order, and a frame that
\* has none of them.
TransformFrames ==
    { [columns |-> <<"fever", "skin rash", "cough">>, rows |-> <<<<10, 0, 10>>>>],
      [columns |-> <<"fever", "cough">>, rows |-> <<<<10, 10>>>>],
      [columns |-> <<"fever", "skin rash", "cough", "headache">>,
       rows |-> <<<<10, 10, 0, 10>>>>],
      [columns |-> <<"cough", "fever", "skin rash">>, rows |-> <<<<0, 10, 10>>>>],
      [columns |-> <<"headache">>, rows |-> <<<<10>>>>] }

\* feature_engineer.transform(X), predictor.py:82, on the fitted engineer of
\* feature_engineer.py.  No statement of transform raises on the columns of
\* its input: a fitted column the frame lacks is passed over at lines 155,
\* 167 and 173.
TransformFrame(X) ==
    /\ tr_pc = "loaded"
    /\ fr_engineer # NoEngineer
    /\ ~transformed.called
    /\ transformed' = [called |-> TRUE, class |-> fr_engineer.class,
                       input |-> X.columns, raised |-> FALSE,
                       columns |-> fr_transform(fr_engineer, X)]
    /\ UNCHANGED <<df_main, training, fe_engineer, fr_engineer, tr_pc>>
    /\ UNCHANGED outside_train

\* Frames of one row with the columns of the fit, as the rows of the test
\* split and the requests of the service are.
TestFrames ==
    { [columns |-> SymptomColumns, rows |-> <<<<10, 0, 10>>>>],
      [columns |-> SymptomColumns, rows |-> <<<<0, 0, 10>>>>],
      [columns |-> SymptomColumns, rows |-> <<<<10, 10, 0>>>>],
      [columns |-> SymptomColumns, rows |-> <<<<0, 0, 0>>>>] }

\* self.feature_engineer.transform(self.X_test), scripts/train_model.py:129,
\* on the fitted engineer of feature_engine.py
TransformTest(X) ==
    /\ tr_pc = "loaded"
    /\ fe_engineer # NoEngineer
    /\ ~transformed.called
    /\ transformed' = [called |-> TRUE, class |-> fe_engineer.class,
                       input |-> X.columns, raised |-> FALSE,
                       columns |-> fe_transform(fe_engineer, X).columns]
    /\ fe_engineer' = fe_transform(fe_engineer, X).engineer
    /\ UNCHANGED <<df_main, training, fr_engineer, tr_pc>>
    /\ UNCHANGED outside_train

TrainNext ==
    \/ PrepareTrainingData
    \/ FitFeatureEngine
    \/ FitFeatureEngineer
    \/ \E X \in TransformFrames : TransformFrame(X)
    \/ \E X \in TestFrames : TransformTest(X)

SpecTrain == TrainInit /\ [][TrainNext]_vars

\* The table is symmetric: an entry for (a, b) exists exactly when one for
\* (b, a) does, and the two hold the same count.
Symmetric(table) ==
    \A a \in DOMAIN table : \A b \in DOMAIN table[a] :
        /\ b \in DOMAIN table
        /\ a \in DOMAIN table[b]
        /\ table[b][a] = table[a][b]

\* C18: after any training records the co-occurrence table is symmetric, in
\* the SymptomFeatureEngineer of the assistant and in both
\* AdvancedFeatureEngineer classes.
C18_CooccurrenceSymmetric ==
    /\ Symmetric(training.symptom_cooccurrence)
    /\ fe_engineer # NoEngineer => Symmetric(fe_engineer.symptom_cooccurrence)
    /\ fr_engineer # NoEngineer => Symmetric(fr_engineer.symptom_cooccurrence)

\* All three tables built, each with a count above 1 and with several keys.
C18_Witness ==
    /\ training.prepared
    /\ fe_engineer # NoEngineer
    /\ fr_engineer # NoEngineer
    /\ \A table \in {training.symptom_cooccurrence,
                     fe_engineer.symptom_cooccurrence,
                     fr_engineer.symptom_cooccurrence} :
          /\ Cardinality(DOMAIN table) >= 3
          /\ \E a \in DOMAIN table : \E b \in DOMAIN table[a] :
                table[a][b] > 1

\* C19: after prepare_training_data, s is in disease_symptom_map[d] exactly
\* when d is in symptom_disease_map[s], and every symptom of all_symptoms is
\* in the signature of some disease.
C19_MapsAreInverses ==
    training.prepared =>
        /\ \A d \in DOMAIN training.disease_symptom_map :
              \A s \in training.disease_symptom_map[d] :
                  /\ s \in DOMAIN training.symptom_disease_map
                  /\ d \in training.symptom_disease_map[s]
        /\ \A s \in DOMAIN training.symptom_disease_map :
              \A d \in training.symptom_disease_map[s] :
                  /\ d \in DOMAIN training.disease_symptom_map
                  /\ s \in training.disease_symptom_map[d]
        /\ \A s \in training.all_symptoms :
              \E d \in DOMAIN training.disease_symptom_map :
                  s \in training.disease_symptom_map[d]

\* Two diseases with a symptom in common, after rows that were skipped or
\* added nothing.
C19_Witness ==
    /\ training.prepared
    /\ Cardinality(DOMAIN training.disease_symptom_map) >= 2
    /\ \E s \in training.all_symptoms :
          Cardinality(training.symptom_disease_map[s]) >= 2

\* C14: transform of feature_engineer.py raises whenever the symptom columns
\* of its input are not those recorded at fit, and a frame it returns has
\* the columns, in the order, of the frame produced for the training data.
C14_TransformRejectsOtherColumns ==
    transformed.class = "feature_engineer" =>
        /\ Range(transformed.input) # Range(fr_engineer.symptom_columns)
              => transformed.raised
        /\ ~transformed.raised
              => transformed.columns = fr_engineer.feature_names

\* C20: an inference call leaves the fitted state as fit left it: the
\* weights, the IDF table, the co-occurrence table and the vocabulary of a
\* fitted engineer are the same after every step.
C20_FittedStateUnchanged ==
    [][fe_engineer # NoEngineer =>
          /\ fe_engineer'.symptom_weights = fe_engineer.symptom_weights
          /\ fe_engineer'.symptom_idf = fe_engineer.symptom_idf
          /\ fe_engineer'.symptom_columns = fe_engineer.symptom_columns
          /\ fe_engineer'.symptom_cooccurrence
                = fe_engineer.symptom_cooccurrence]_vars

\* The diseases of the file that have a row with the symptom.
DiseasesWith(symptom) ==
    {df_main[i].disease :
        i \in {r \in 1..Len(df_main) :
                 symptom \in Range(symptoms_in_row(df_main[r], SymptomColumns))}}

\* The labels of the trainer's frame that have a row with the column set.
LabelsWith(column) ==
    {Labels(df_main)[i] :
        i \in {r \in 1..Len(df_main) :
                 \E j \in 1..Len(SymptomColumns) :
                     /\ SymptomColumns[j] = column
                     /\ df_main[r].cells[j].num > 0}}

\* C24: the document frequency behind the IDF and the rarity of a symptom
\* is the number of distinct diseases whose training records contain the
\* symptom, also when a disease has several rows, and never exceeds the
\* number of distinct diseases: in calculate_symptom_weights of
\* Feature_Engineering.py and in _calculate_symptom_idf of
\* feature_engineer.py.
C24_DocFreqCountsDiseases ==
    /\ training.prepared =>
          \A s \in DOMAIN training.symptom_doc_freq :
              /\ training.symptom_doc_freq[s] = Cardinality(DiseasesWith(s))
              /\ training.symptom_doc_freq[s] <= training.total_diseases
    /\ fr_engineer # NoEngineer =>
          \A s \in DOMAIN fr_engineer.symptom_idf :
              /\ fr_engineer.symptom_idf[s][2] - 1 = Cardinality(LabelsWith(s))
              /\ fr_engineer.symptom_idf[s][2] <= fr_engineer.symptom_idf[s][1]

-----------------------------------------------------------------------------
(***************************************************************************)
(* The prediction service of backend/app: ModelManager.load_model at       *)
(* startup (app/main.py:16-37), then /analyze requests                     *)
(* (app/api/v1/endpoints/analysis.py:140-228) served by                    *)
(* PredictionService.predict.                                              *)
(***************************************************************************)

\* Feature_Engineering.py:165-169
get_cooccurrence_score(s1, s2, symptom_cooccurrence) ==
    IF s1 \in DOMAIN symptom_cooccurrence
    THEN IF s2 \in DOMAIN symptom_cooccurrence[s1]
         THEN symptom_cooccurrence[s1][s2] ELSE 0
    ELSE 0

\* Feature_Engineering.py:176-181: the weighted presence entries
PresenceEntries(symptoms, all_symptoms_list, symptom_weights) ==
    [i \in 1..Len(all_symptoms_list) |->
        IF all_symptoms_list[i] \in symptoms
        THEN get_combined_weight(all_symptoms_list[i], symptom_weights)
        ELSE 0]

\* Feature_Engineering.py:171-202: the feature vector. Weights are in
\* millionths; the mean is the pair <<sum, count>>; listed is
\* list(symptoms), taken in sorted order.
create_enhanced_features(self, symptoms, all_symptoms_list) ==
    LET listed == SortedStrings(symptoms)
        combined == [i \in 1..Len(listed) |->
                        get_combined_weight(listed[i],
                                            self.symptom_weights)]
        avg_severity == IF symptoms # {}
                        THEN <<Sum(combined, 1), Len(combined)>>
                        ELSE <<0, 1>>
        pair_scores ==
            [i \in 1..Len(listed) |->
                Sum([j \in 1..Len(listed) |->
                        IF i < j
                        THEN get_cooccurrence_score(listed[i],
                                                    listed[j],
                                                    self.symptom_cooccurrence)
                        ELSE 0], 1)]
        cooc_score == Sum(pair_scores, 1)
        max_severity == IF symptoms # {}
                        THEN CHOOSE w \in Range(combined) :
                                 \A v \in Range(combined) : w >= v
                        ELSE 0
    IN  PresenceEntries(symptoms, all_symptoms_list, self.symptom_weights)
            \o <<Cardinality(symptoms), avg_severity, cooc_score,
                 max_severity>>

\* predictor.py:21-35, with get_metadata of model_manager.py:71-77: the
\* vocabulary a PredictionService is constructed with. No engineer the
\* manager can hold has been unpickled from a file of this repository's
\* scripts: any engineer present has symptom_columns.
load_all_symptoms(model_manager) ==
    LET metadata == model_manager.model_metadata
                       @@ [version |-> "v1",
                           loaded |-> model_manager.active_model # "none"]
    IN  IF model_manager.feature_engineer # NoEngineer
        THEN model_manager.feature_engineer.symptom_columns
        ELSE IF "feature_names" \in DOMAIN metadata
             THEN metadata.feature_names
             ELSE <<>>

\* predictor.py:159-162 and 171-174: the value of a present symptom, in
\* tenths
FeatureValue(symptom, severity) ==
    IF severity # <<>> /\ symptom \in DOMAIN severity
    THEN severity[symptom] ELSE 10

\* dict keys in insertion order: the first occurrence of each name
Keys(names) ==
    SelectSeq([i \in 1..Len(names) |->
                  IF \E j \in 1..(i - 1) : names[j] = names[i]
                  THEN None ELSE names[i]],
              LAMBDA name : name # None)

\* predictor.py:138-176: the one-row frame of a request
prepare_features(all_symptoms, symptoms, severity) ==
    LET normalized_symptoms ==
            {Lower(Strip(symptoms[i])) : i \in 1..Len(symptoms)}
        columns == IF all_symptoms # <<>> THEN Keys(all_symptoms)
                   ELSE Keys(symptoms)
    IN  [columns |-> columns,
         row |-> [i \in 1..Len(columns) |->
                    IF all_symptoms # <<>>
                    THEN IF Lower(columns[i]) \in normalized_symptoms
                         THEN FeatureValue(columns[i], severity) ELSE 0
                    ELSE FeatureValue(columns[i], severity)]]

\* Requests /analyze can be sent before the service stops being watched.
MaxRequests == 2

\* metadata.json as scripts/train_model.py:430-447 writes it, without the
\* feature names, and as scripts/fast_train.py and scripts/quick_train.py
\* write it, with them.
MetadataFiles ==
    { [exists |-> FALSE, content |-> NoMap],
      [exists |-> TRUE, content |-> [version |-> "v1", use_smote |-> TRUE]],
      [exists |-> TRUE,
       content |-> [version |-> "1.0-fast",
                    model_type |-> "RandomForestClassifier",
                    feature_names |-> SymptomColumns]] }

\* The model directory. feature_engineer.pkl is absent (fast_train.py,
\* quick_train.py) or cut short: pickle.dump of train_model.py:424 raises on
\* the lambda of feature_engine.py:17 after open(..., 'wb') made the file.
ModelDirs ==
    [model : {"ok", "missing", "corrupt"},
     feature_engineer : {"missing", "corrupt"},
     metadata : MetadataFiles]

\* schemas.py:22-58: validated requests, the symptoms stripped, lowered and
\* without duplicates, each severity in 1..10
AnalysisRequests ==
    { [symptoms |-> <<"fever">>, severity |-> NoMap],
      [symptoms |-> <<"cough">>, severity |-> NoMap],
      [symptoms |-> <<"fever", "cough">>, severity |-> NoMap],
      [symptoms |-> <<"cough", "fever">>, severity |-> NoMap],
      [symptoms |-> <<"headache">>, severity |-> NoMap],
      [symptoms |-> <<"fever", "headache">>, severity |-> NoMap],
      [symptoms |-> <<"fever">>, severity |-> [s \in {"fever"} |-> 3]] }

\* What the classifier makes of a frame (sklearn, outside the repository):
\* some class at 0.01 or more, none, or an exception.
ClassifierOutcomes == {"predictions", "none", "raise"}

ServiceInit ==
    /\ model_dir \in ModelDirs
    /\ manager = NewManager
    /\ enable_cache \in BOOLEAN
    /\ cache = NoMap
    /\ served = 0
    /\ response = 0
    /\ columns_seen = {}
    /\ pickle_file = [state |-> "missing", keys |-> {}]
    /\ loaded_assistant = NotLoaded
    /\ sv_pc = "start"
    /\ FlaskOff
    /\ ExtractOff
    /\ AssessOff
    /\ NormalizeOff
    /\ TrainOff
    /\ MatchOff
    /\ SeverityOff
    /\ AugmentOff
    /\ MemCacheOff

\* model_manager.py:22-61, called by the lifespan of app/main.py:24
load_model(self, dir) ==
    IF dir.model # "ok"
    THEN [self EXCEPT !.returned = "false"]
    ELSE IF dir.feature_engineer = "corrupt"
         THEN [self EXCEPT !.active_model = "model", !.returned = "false"]
         ELSE [self EXCEPT !.active_model = "model",
                           !.model_metadata =
                               IF dir.metadata.exists
                               THEN dir.metadata.content ELSE @,
                           !.returned = "true"]

LoadModel ==
    /\ sv_pc = "start"
    /\ manager' = load_model(manager, model_dir)
    /\ sv_pc' = "serving"
    /\ UNCHANGED <<model_dir, enable_cache, cache, served, response,
                   columns_seen, pickle_file, loaded_assistant>>
    /\ UNCHANGED outside_service

\* cache.py:48-52 on predictor.py:58-63: what the key is a digest of
cache_key(req) ==
    [symptoms |-> SortedStrings(Range(req.symptoms)),
     severity |-> req.severity]

\* analysis.py:140-228 with predictor.py:37-136: one /analyze request
Predict(req, outcome) ==
    /\ sv_pc = "serving"
    /\ served < MaxRequests
    /\ served' = served + 1
    /\ IF manager.active_model = "none"
       THEN /\ response' = 503
            /\ UNCHANGED <<cache, columns_seen>>
       ELSE IF enable_cache /\ cache_key(req) \in DOMAIN cache
       THEN /\ response' = IF cache[cache_key(req)] = "predictions"
                           THEN 200 ELSE 400
            /\ UNCHANGED <<cache, columns_seen>>
       ELSE LET X == prepare_features(load_all_symptoms(manager),
                                      req.symptoms, req.severity)
            IN  /\ columns_seen' = columns_seen \cup {X.columns}
                /\ IF outcome = "raise"
                   THEN /\ response' = 500
                        /\ UNCHANGED cache
                   ELSE /\ response' = IF outcome = "predictions"
                                       THEN 200 ELSE 400
                        /\ cache' =
                             IF enable_cache
                             THEN [k \in DOMAIN cache \cup {cache_key(req)}
                                     |-> IF k = cache_key(req) THEN outcome
                                         ELSE cache[k]]
                             ELSE cache
    /\ UNCHANGED <<model_dir, manager, enable_cache, pickle_file,
                   loaded_assistant, sv_pc>>
    /\ UNCHANGED outside_service

\* cache.py:20-23: an entry outlives its expiry and is gone
Expire(key) ==
    /\ sv_pc = "serving"
    /\ key \in DOMAIN cache
    /\ cache' = [k \in DOMAIN cache \ {key} |-> cache[k]]
    /\ UNCHANGED <<model_dir, manager, enable_cache, served, response,
                   columns_seen, pickle_file, loaded_assistant, sv_pc>>
    /\ UNCHANGED outside_service

ServiceNext ==
    \/ LoadModel
    \/ \E req \in AnalysisRequests, outcome \in ClassifierOutcomes :
          Predict(req, outcome)
    \/ \E req \in AnalysisRequests : Expire(cache_key(req))

SpecService == ServiceInit /\ [][ServiceNext]_vars

\* A co-occurrence table of the assistant's engineer
CooccurrenceTable ==
    [s \in {"cough", "fatigue"} |->
        IF s = "cough" THEN [t \in {"fatigue"} |-> 2]
        ELSE [t \in {"cough"} |-> 2]]

\* Symptom sets handed to create_enhanced_features: empty, known, partly
\* unknown, unknown
SymptomSets ==
    {{}, {"cough"}, {"cough", "fatigue"}, {"cough", "sneezing"},
     {"sneezing"}, {"cough", "fatigue", "high_fever", "itching"}}

\* C13: for a loaded artifact the feature vector has one length whatever the
\* symptoms are: create_enhanced_features returns |all_symptoms_list| + 4
\* entries, and the frames _prepare_features builds all have the same
\* columns.
C13_FeatureVectorLengthFixed ==
    /\ \A md \in ModelData, symptoms \in SymptomSets :
          Len(create_enhanced_features(
                  [symptom_weights |-> md.symptom_weights,
                   symptom_cooccurrence |-> CooccurrenceTable],
                  symptoms, md.all_symptoms))
             = Len(md.all_symptoms) + 4
    /\ \A c1, c2 \in columns_seen :
          Len(c1) = Len(c2) /\ Range(c1) = Range(c2)

\* C29: ModelManager.load_model is all-or-nothing: when it has returned
\* False, active_model, feature_engineer and model_metadata are as they were
\* before the call, so that is_loaded() is true only if a load returned
\* True.
C29_LoadAllOrNothing ==
    /\ manager.returned = "false" =>
          /\ manager.active_model = NewManager.active_model
          /\ manager.feature_engineer = NewManager.feature_engineer
          /\ manager.model_metadata = NewManager.model_metadata
    /\ manager.active_model # "none" => manager.returned = "true"

-----------------------------------------------------------------------------
(***************************************************************************)
(* Loading: HealthcareAssistant.load_model on healthcare_model.pkl, beside *)
(* ModelManager.load_model on the model directory.                         *)
(***************************************************************************)

\* Keys a pickle can lack
MaxLacking == 1

\* Healthcare_Assistant_System.py:599-616: the keys save_model writes
SavedKeys ==
    {"model", "label_encoder", "scaler", "feature_engineer", "all_symptoms",
     "all_symptoms_list", "severity_map", "description_map",
     "precautions_map", "medications_map", "diets_map", "workouts_map",
     "symptom_columns", "disease_column", "disease_symptom_map",
     "symptom_disease_map"}

\* Healthcare_Assistant_System.py:631-646: the assignments in their order;
\* subscript is TRUE for model_data[key], FALSE for model_data.get(key, ...)
Assignments ==
    << [key |-> "model", subscript |-> TRUE],
       [key |-> "label_encoder", subscript |-> TRUE],
       [key |-> "scaler", subscript |-> FALSE],
       [key |-> "feature_engineer", subscript |-> FALSE],
       [key |-> "all_symptoms", subscript |-> TRUE],
       [key |-> "all_symptoms_list", subscript |-> FALSE],
       [key |-> "severity_map", subscript |-> TRUE],
       [key |-> "description_map", subscript |-> TRUE],
       [key |-> "precautions_map", subscript |-> TRUE],
       [key |-> "medications_map", subscript |-> TRUE],
       [key |-> "diets_map", subscript |-> TRUE],
       [key |-> "workouts_map", subscript |-> TRUE],
       [key |-> "symptom_columns", subscript |-> TRUE],
       [key |-> "disease_column", subscript |-> FALSE],
       [key |-> "disease_symptom_map", subscript |-> FALSE],
       [key |-> "symptom_disease_map", subscript |-> FALSE] >>

\* Healthcare_Assistant_System.py:623-648: the fields assigned, each from
\* the pickle or from a default, up to the first KeyError
assistant_load_model(file) ==
    IF file.state # "ok" THEN [returned |-> "raised", fields |-> NoMap]
    ELSE LET raising == {i \in 1..Len(Assignments) :
                            /\ Assignments[i].subscript
                            /\ Assignments[i].key \notin file.keys}
             last == IF raising = {} THEN Len(Assignments)
                     ELSE (CHOOSE i \in raising :
                              \A j \in raising : i <= j) - 1
         IN  [returned |-> IF raising = {} THEN "loaded" ELSE "raised",
              fields |->
                 [k \in {Assignments[i].key : i \in 1..last} |->
                     IF k \in file.keys THEN "loaded" ELSE "default"]]

\* The pickles: absent, unreadable, or a dictionary lacking some of the keys
\* save_model writes
Pickles ==
    {[state |-> "missing", keys |-> {}], [state |-> "corrupt", keys |-> {}]}
      \cup {[state |-> "ok", keys |-> SavedKeys \ lacking] :
               lacking \in {L \in SUBSET SavedKeys :
                               Cardinality(L) <= MaxLacking}}

LoadInit ==
    /\ model_dir \in ModelDirs
    /\ manager = NewManager
    /\ enable_cache = FALSE
    /\ cache = NoMap
    /\ served = 0
    /\ response = 0
    /\ columns_seen = {}
    /\ pickle_file \in Pickles
    /\ loaded_assistant = NotLoaded
    /\ sv_pc = "start"
    /\ FlaskOff
    /\ ExtractOff
    /\ AssessOff
    /\ NormalizeOff
    /\ TrainOff
    /\ MatchOff
    /\ SeverityOff
    /\ AugmentOff
    /\ MemCacheOff

\* assistant.load_model(), backend/app.py:87
LoadAssistant ==
    /\ sv_pc # "off"
    /\ loaded_assistant.returned = "not called"
    /\ loaded_assistant' = assistant_load_model(pickle_file)
    /\ UNCHANGED <<model_dir, manager, enable_cache, cache, served,
                   response, columns_seen, pickle_file, sv_pc>>
    /\ UNCHANGED outside_service

LoadNext == LoadModel \/ LoadAssistant

SpecLoad == LoadInit /\ [][LoadNext]_vars

\* The components an artifact has to hold: the classifier, the label
\* encoder, the feature-engineer state, the vocabulary and the side-table
\* maps
RequiredKeys ==
    {"model", "label_encoder", "feature_engineer", "all_symptoms",
     "description_map", "precautions_map", "medications_map", "diets_map",
     "workouts_map"}

\* C15: a load of an artifact that lacks a required component ends in
\* failure: HealthcareAssistant.load_model raises when the pickle lacks a
\* required key, and ModelManager.load_model returns False when the
\* directory has no readable model or no readable feature engineer.
C15_IncompleteArtifactFailsToLoad ==
    /\ (loaded_assistant.returned # "not called"
          /\ (pickle_file.state = "missing"
                \/ RequiredKeys \ pickle_file.keys # {}))
          => loaded_assistant.returned = "raised"
    /\ (manager.returned # "not called"
          /\ (model_dir.model = "missing"
                \/ model_dir.feature_engineer = "missing"))
          => manager.returned = "false"

-----------------------------------------------------------------------------
(***************************************************************************)
(* Fuzzy matching over a vocabulary held in a Python set: the loops of     *)
(* _find_best_symptom_match and _fuzzy_match take its elements in the      *)
(* order the set enumerates them, which the hash seed of the process       *)
(* decides.                                                                *)
(***************************************************************************)

\* Vocabulary sets of a loaded artifact
VocabularySets ==
    { {"chest_pain", "joint_pain", "headache"},
      {"nasal_congestion", "chest_congestion", "vomiting"} }

\* Symptoms handed to the matching functions: as typed by a user, and
\* 'congestion' of SYMPTOM_PHRASES['blocked nose'] (Interract.py:118)
MatchInputs ==
    {"throat pain", "congestion", "chest pains", "head-ache", "vomit",
     "Joint Pain"}

MatchInit ==
    /\ \E S \in VocabularySets : vocabulary \in Orders(S)
    /\ mt_input \in MatchInputs
    /\ mt_result = Uncalled
    /\ mt_pc = "matching"
    /\ FlaskOff
    /\ ExtractOff
    /\ AssessOff
    /\ NormalizeOff
    /\ TrainOff
    /\ ServiceOff
    /\ SeverityOff
    /\ AugmentOff
    /\ MemCacheOff

\* self._find_best_symptom_match(symptom),
\* Healthcare_Assistant_System.py:424
FindBestSymptomMatch ==
    /\ mt_pc = "matching"
    /\ mt_result.find_best = "uncalled"
    /\ mt_result' =
          [mt_result EXCEPT !.find_best =
              find_best_symptom_match(mt_input, DefaultThreshold,
                                      vocabulary).match]
    /\ UNCHANGED <<vocabulary, mt_input, mt_pc>>
    /\ UNCHANGED outside_match

\* self._fuzzy_match(symptom), Interract.py:406
FuzzyMatch ==
    /\ mt_pc = "matching"
    /\ mt_result.fuzzy = "uncalled"
    /\ mt_result' =
          [mt_result EXCEPT !.fuzzy =
              fuzzy_match(mt_input, <<8, 10>>, vocabulary)]
    /\ UNCHANGED <<vocabulary, mt_input, mt_pc>>
    /\ UNCHANGED outside_match

MatchNext == FindBestSymptomMatch \/ FuzzyMatch

SpecMatch == MatchInit /\ [][MatchNext]_vars

\* C21: for a vocabulary set and an input, the symptom fuzzy matching
\* resolves to is the same in whatever order the set is enumerated.
C21_MatchIndependentOfOrder ==
    \A known \in Orders(Range(vocabulary)) :
        /\ mt_result.find_best # "uncalled" =>
              mt_result.find_best
                 = find_best_symptom_match(mt_input, DefaultThreshold,
                                           known).match
        /\ mt_result.fuzzy # "uncalled" =>
              mt_result.fuzzy = fuzzy_match(mt_input, <<8, 10>>, known)

-----------------------------------------------------------------------------
(***************************************************************************)
(* The user's severity scores: PredictionService._prepare_features         *)
(* (predictor.py:138-176) and AdvancedFeatureEngineer.transform            *)
(* (feature_engineer.py:153-163)                                           *)
(***************************************************************************)

\* feature_engineer.py:158-163: the factor, beside the weight, by which
\* transform scales the column of a symptom, as a fraction
severity_multiplier(user_severity, symptom) ==
    IF user_severity # NoMap /\ symptom \in DOMAIN user_severity
    THEN <<user_severity[symptom], 5>>
    ELSE <<1, 1>>

\* schemas.py:51-58: the severity dicts validate_severity lets through, over
\* two symptoms
SeverityDicts ==
    UNION {[S -> 1..10] : S \in SUBSET {"fever", "cough"}}

SeverityInit ==
    /\ sev_request \in {[symptoms |-> <<"fever", "cough">>, severity |-> m] :
                            m \in SeverityDicts}
    /\ sev_features = Unscaled
    /\ sev_pc = "scaling"
    /\ FlaskOff
    /\ ExtractOff
    /\ AssessOff
    /\ NormalizeOff
    /\ TrainOff
    /\ ServiceOff
    /\ MatchOff
    /\ AugmentOff
    /\ MemCacheOff

\* self._prepare_features(symptoms, severity), predictor.py:78
PrepareFeatures ==
    /\ sev_pc = "scaling"
    /\ "prepare_features" \notin sev_features.called
    /\ sev_features' =
          [sev_features EXCEPT
             !.called = @ \cup {"prepare_features"},
             !.prepared = prepare_features(SymptomColumns,
                                           sev_request.symptoms,
                                           sev_request.severity)]
    /\ UNCHANGED <<sev_request, sev_pc>>
    /\ UNCHANGED outside_severity

\* transform(df, user_severity), feature_engineer.py:153-163: the factors of
\* the symptom columns
TransformWithSeverity ==
    /\ sev_pc = "scaling"
    /\ "transform" \notin sev_features.called
    /\ sev_features' =
          [sev_features EXCEPT
             !.called = @ \cup {"transform"},
             !.multipliers =
                 [symptom \in Range(SymptomColumns) |->
                    severity_multiplier(sev_request.severity, symptom)]]
    /\ UNCHANGED <<sev_request, sev_pc>>
    /\ UNCHANGED outside_severity

SeverityNext == PrepareFeatures \/ TransformWithSeverity

SpecSeverity == SeverityInit /\ [][SeverityNext]_vars

\* C25: for every user severity in 1..10 the multiplier applied to the
\* feature of a present symptom lies in [0, 1], in _prepare_features and in
\* transform of feature_engineer.py alike, and a symptom without a severity
\* of its own gets the multiplier 1.
C25_SeverityMultiplierInUnitInterval ==
    /\ "prepare_features" \in sev_features.called =>
          \A i \in 1..Len(sev_features.prepared.columns) :
              LET symptom == sev_features.prepared.columns[i]
                  value == sev_features.prepared.row[i]
              IN  symptom \in Range(sev_request.symptoms) =>
                     /\ 0 <= value /\ value <= 10
                     /\ symptom \notin DOMAIN sev_request.severity
                           => value = 10
    /\ "transform" \in sev_features.called =>
          \A symptom \in DOMAIN sev_features.multipliers :
              LET multiplier == sev_features.multipliers[symptom]
              IN  /\ 0 <= multiplier[1] /\ multiplier[1] <= multiplier[2]
                  /\ symptom \notin DOMAIN sev_request.severity
                        => multiplier = <<1, 1>>

-----------------------------------------------------------------------------
(***************************************************************************)
(* backend/model/Feature_Engineering.py: augment_training_data.  A sample  *)
(* of X_augmented is kept as the symptom set create_enhanced_features is   *)
(* called with.  A seed is kept as two words of 16 bits, the upper one     *)
(* above 2^16 - 1 when the seed is 2^32 or more.                           *)
(***************************************************************************)

Word == 2 ^ 16

\* Feature_Engineering.py:213: the default of augmentation_factor
DefaultAugmentationFactor == 5

\* partial samples of any size the ratio gives, without the max of line 237
n_symptoms_without_minimum(len, aug_idx, augmentation_factor) ==
    (len * (augmentation_factor + aug_idx)) \div (2 * augmentation_factor)

\* Feature_Engineering.py:236-237: max(2, int(len * ratio)) with
\* ratio = 0.5 + (aug_idx / augmentation_factor) * 0.5
n_symptoms(len, aug_idx, augmentation_factor) ==
    Max(2, (len * (augmentation_factor + aug_idx))
              \div (2 * augmentation_factor))

\* Feature_Engineering.py:239 and 248: hash(disease) % (2**32) + index, for
\* the remainder in two words
Seed(residue, index) ==
    <<residue[1] + (residue[2] + index) \div Word, (residue[2] + index) % Word>>

\* np.random.seed(seed) raises ValueError unless 0 <= seed <= 2**32 - 1
SeedAccepted(seed) == seed[1] >= 0 /\ seed[1] < Word

\* np.random.choice(list, n, replace=False), as the sets it can give
Choices(list, n) == {S \in SUBSET Range(list) : Cardinality(S) = n}

\* hash(disease) % (2**32) for the hash values a process can give a string:
\* 0, a value in the middle, 2^32 - 10, 2^32 - 9, 2^32 - 6 and 2^32 - 1
Residues ==
    { <<0, 0>>, <<18000, 4242>>, <<Word - 1, Word - 10>>,
      <<Word - 1, Word - 9>>, <<Word - 1, Word - 6>>, <<Word - 1, Word - 1>> }

\* Calls: with the default factor and with the factor 8 of
\* Healthcare_Assistant_System.py:304-309; disease_symptom_map in the order
\* of its items.
AugmentCalls ==
    { [disease_symptom_map |->
           << [disease |-> "flu", symptoms |-> {"cough", "fever", "headache"}],
              [disease |-> "cold", symptoms |-> {"cough"}] >>,
       all_symptoms_list |-> <<"cough", "fever", "headache", "nausea">>,
       augmentation_factor |-> DefaultAugmentationFactor],
      [disease_symptom_map |->
           << [disease |-> "cold", symptoms |-> {"cough"}],
              [disease |-> "measles", symptoms |-> {"cough", "fever"}] >>,
       all_symptoms_list |-> <<"cough", "fever", "headache">>,
       augmentation_factor |-> 8],
      [disease_symptom_map |->
           << [disease |-> "migraine", symptoms |-> {"headache", "nausea"}],
              [disease |-> "unknown", symptoms |-> {}] >>,
       all_symptoms_list |-> <<"headache", "nausea">>,
       augmentation_factor |-> DefaultAugmentationFactor] }

AugmentInit ==
    /\ \E call \in AugmentCalls :
          \E residue \in [{call.disease_symptom_map[k].disease :
                             k \in 1..Len(call.disease_symptom_map)}
                          -> Residues] :
              aug_input = [disease_symptom_map |-> call.disease_symptom_map,
                           all_symptoms_list |-> call.all_symptoms_list,
                           augmentation_factor |-> call.augmentation_factor,
                           residue |-> residue]
    /\ aug = [NotAugmenting EXCEPT !.step = "original", !.i = 1]
    /\ FlaskOff
    /\ ExtractOff
    /\ AssessOff
    /\ NormalizeOff
    /\ TrainOff
    /\ ServiceOff
    /\ MatchOff
    /\ SeverityOff
    /\ MemCacheOff

\* The loop of line 220 goes on to the next disease, or the function
\* returns (line 257).
NextDisease(st) ==
    IF st.i < Len(aug_input.disease_symptom_map)
    THEN [st EXCEPT !.step = "original", !.i = @ + 1, !.idx = 0]
    ELSE [st EXCEPT !.step = "returned", !.idx = 0]

\* X_augmented.append(features); y_augmented.append(disease)
WithSample(st, symptoms, disease) ==
    [st EXCEPT !.X_augmented = Append(@, symptoms),
               !.y_augmented = Append(@, disease)]

\* Feature_Engineering.py:221-232: the sample of the signature itself
OriginalSample ==
    /\ aug.step = "original"
    /\ LET item == aug_input.disease_symptom_map[aug.i]
           added == WithSample(aug, item.symptoms, item.disease)
       IN  aug' = IF Cardinality(item.symptoms) < 2
                  THEN NextDisease(added)
                  ELSE [added EXCEPT !.step = "augmented", !.idx = 0]
    /\ UNCHANGED aug_input
    /\ UNCHANGED outside_augment

\* Feature_Engineering.py:235-244: one round of the loop of partial samples
AugmentedSample ==
    /\ aug.step = "augmented"
    /\ LET item == aug_input.disease_symptom_map[aug.i]
           augmentation_factor == aug_input.augmentation_factor
           seed == Seed(aug_input.residue[item.disease], aug.idx)
           seeded == [aug EXCEPT !.seeds = Append(@, seed)]
       IN  IF ~SeedAccepted(seed)
           THEN aug' = [seeded EXCEPT !.step = "raised"]
           ELSE \E selected \in Choices(SortedStrings(item.symptoms),
                                        n_symptoms(Cardinality(item.symptoms),
                                                   aug.idx,
                                                   augmentation_factor)) :
                   aug' = [WithSample(seeded, selected, item.disease) EXCEPT
                             !.idx = @ + 1,
                             !.step = IF aug.idx + 1 < augmentation_factor
                                      THEN "augmented" ELSE "noise"]
    /\ UNCHANGED aug_input
    /\ UNCHANGED outside_augment

\* Feature_Engineering.py:247-254: one round of the loop of noise samples
NoiseSample ==
    /\ aug.step = "noise"
    /\ LET item == aug_input.disease_symptom_map[aug.i]
           noise_idx == aug.idx - aug_input.augmentation_factor
           seed == Seed(aug_input.residue[item.disease], aug.idx)
           seeded == [aug EXCEPT !.seeds = Append(@, seed)]
       IN  IF ~SeedAccepted(seed)
           THEN aug' = [seeded EXCEPT !.step = "raised"]
           ELSE \E noise_symptoms \in
                        Choices(aug_input.all_symptoms_list,
                                Min(2, Len(aug_input.all_symptoms_list))) :
                   aug' = IF noise_idx + 1 < 2
                          THEN [WithSample(seeded,
                                           item.symptoms \cup noise_symptoms,
                                           item.disease)
                                  EXCEPT !.idx = @ + 1]
                          ELSE NextDisease(
                                 WithSample(seeded,
                                            item.symptoms \cup noise_symptoms,
                                            item.disease))
    /\ UNCHANGED aug_input
    /\ UNCHANGED outside_augment

AugmentNext == OriginalSample \/ AugmentedSample \/ NoiseSample

SpecAugment == AugmentInit /\ [][AugmentNext]_vars

\* The places in y_augmented of the samples of a disease.
SamplesOf(disease) ==
    {j \in 1..Len(aug.y_augmented) : aug.y_augmented[j] = disease}

C30_SeedsInRange ==
    \A k \in 1..Len(aug.seeds) : SeedAccepted(aug.seeds[k])

-----------------------------------------------------------------------------
(***************************************************************************)
(* backend/app/core/cache.py: InMemoryCache.  The methods are coroutines    *)
(* without an await inside, so each runs to its end on the event loop.     *)
(***************************************************************************)

\* Seconds the clock is watched for.
MaxTime == 2

CacheKeys == {"prediction:1", "prediction:2"}

\* Results predict caches (predictor.py:129-130).
CacheValues == {"result a", "result b"}

\* ttl of a set: the 3600 of predictor.py:130 stands for the longer one.
TTLs == {1, 2}

\* get returning the entry whatever its expiry
cache_get_ignoring_expiry(store, key, now) ==
    [result |-> IF key \in DOMAIN store THEN store[key].data ELSE None,
     store |-> store]

\* cache.py:16-24: the result of get and self._cache after it
cache_get(store, key, now) ==
    IF key \in DOMAIN store
    THEN IF now < store[key].expiry
         THEN [result |-> store[key].data, store |-> store]
         ELSE [result |-> None,
               store |-> [k \in DOMAIN store \ {key} |-> store[k]]]
    ELSE [result |-> None, store |-> store]

\* cache.py:26-29: self._cache after set
cache_set(store, key, value, ttl, now) ==
    [k \in DOMAIN store \cup {key} |->
       IF k = key THEN [data |-> value, expiry |-> now + ttl] ELSE store[k]]

\* cache.py:31-34: self._cache after delete
cache_delete(store, key) ==
    [k \in DOMAIN store \ {key} |-> store[k]]

MemCacheInit ==
    /\ mc_store = NoMap
    /\ mc_now = 0
    /\ mc_written = [k \in CacheKeys |-> NeverSet]
    /\ mc_got = NoGet
    /\ FlaskOff
    /\ ExtractOff
    /\ AssessOff
    /\ NormalizeOff
    /\ TrainOff
    /\ ServiceOff
    /\ MatchOff
    /\ SeverityOff
    /\ AugmentOff

\* await cache.get(key)
CacheGet(key) ==
    /\ mc_got' = [key |-> key, at |-> mc_now,
                  result |-> cache_get(mc_store, key, mc_now).result,
                  written |-> mc_written[key],
                  present_after |->
                      key \in DOMAIN cache_get(mc_store, key, mc_now).store]
    /\ mc_store' = cache_get(mc_store, key, mc_now).store
    /\ UNCHANGED <<mc_now, mc_written>>
    /\ UNCHANGED outside_memcache

\* await cache.set(key, value, ttl)
CacheSet(key, value, ttl) ==
    /\ mc_store' = cache_set(mc_store, key, value, ttl, mc_now)
    /\ mc_written' = [mc_written EXCEPT ![key] =
                        [value |-> value, at |-> mc_now, ttl |-> ttl,
                         live |-> TRUE]]
    /\ UNCHANGED <<mc_now, mc_got>>
    /\ UNCHANGED outside_memcache

\* await cache.delete(key)
CacheDelete(key) ==
    /\ mc_store' = cache_delete(mc_store, key)
    /\ mc_written' = [mc_written EXCEPT ![key].live = FALSE]
    /\ UNCHANGED <<mc_now, mc_got>>
    /\ UNCHANGED outside_memcache

\* await cache.clear(), cache.py:36-38
CacheClear ==
    /\ mc_store' = NoMap
    /\ mc_written' = [k \in CacheKeys |-> [mc_written[k] EXCEPT !.live = FALSE]]
    /\ UNCHANGED <<mc_now, mc_got>>
    /\ UNCHANGED outside_memcache

\* A second passes.
Tick ==
    /\ mc_now < MaxTime
    /\ mc_now' = mc_now + 1
    /\ UNCHANGED <<mc_store, mc_written, mc_got>>
    /\ UNCHANGED outside_memcache

MemCacheNext ==
    \/ \E key \in CacheKeys : CacheGet(key)
    \/ \E key \in CacheKeys, value \in CacheValues, ttl \in TTLs :
          CacheSet(key, value, ttl)
    \/ \E key \in CacheKeys : CacheDelete(key)
    \/ CacheClear
    \/ Tick

SpecMemCache == MemCacheInit /\ [][MemCacheNext]_vars

\* C28: get(key) returns a value only if it is the value of the most recent
\* set of the key, no delete of the key and no clear came after that set,
\* and the time of the get is strictly before the time of the set plus its
\* ttl; a get at or after the expiry returns None and removes the entry.
C28_GetReturnsLiveValueOnly ==
    mc_got.key # "none" =>
        /\ mc_got.result # None =>
              /\ mc_got.written.live
              /\ mc_got.result = mc_got.written.value
              /\ mc_got.at < mc_got.written.at + mc_got.written.ttl
        /\ (mc_got.written.live
              /\ mc_got.at >= mc_got.written.at + mc_got.written.ttl) =>
              /\ mc_got.result = None
              /\ ~mc_got.present_after

\* A get that returned the value of the second set of its key, one second
\* before the expiry, while the other key's entry has run out.
C28_Witness ==
    /\ mc_got.key = "prediction:1"
    /\ mc_got.result = "result b"
    /\ mc_got.written.at = 1
    /\ mc_got.at = 2
    /\ mc_got.written.ttl = 2
    /\ "prediction:2" \in DOMAIN mc_store
    /\ mc_store["prediction:2"].expiry <= mc_now

=============================================================================
